---- MODULE Spec2Model ----
(***************************************************************************)
(* Derived Encodable / Decodable conformances                              *)
(* (lib/Sema/DerivedConformanceCodable.cpp).                               *)
(*                                                                         *)
(* The state is one nominal type under derivation: its declaration `ty`    *)
(* (read only), the key-enumeration declarations found by lookupDirect on  *)
(* it (`members`, user-declared ones first, synthesized ones appended),    *)
(* the procedure declarations added to the conformance context (`decls`),  *)
(* the diagnostics emitted so far (`diags`), the outcome of each           *)
(* requirement's derivation (`derived`), the key enumeration each          *)
(* derivation validated (`usedKeys`), the lazily synthesized bodies        *)
(* (`encodeBody`, `initBody`), whether the process has crashed, and for a  *)
(* derivation that is run in steps the result of its CodingKeys lookup     *)
(* (`inFlight`), and the last answer of canDeriveEncodable /               *)
(* canDeriveDecodable (`probe`).                                           *)
(***************************************************************************)
EXTENDS Integers, Sequences, FiniteSets, TLC

VARIABLES ty, members, decls, diags, derived, usedKeys, encodeBody, initBody,
          crashed, inFlight, probe

vars == <<ty, members, decls, diags, derived, usedKeys, encodeBody, initBody,
          crashed, inFlight, probe>>

(***************************************************************************)
(* Bounds of the explored declarations.                                    *)
(***************************************************************************)
\* props + cases + payload slots + user-declared keys + superclass weight
MaxSize == 4
\* the most keys a container handed to a synthesized init(from:) exposes
MaxExposedKeys == 3

(***************************************************************************)
(* Identifiers.                                                            *)
(***************************************************************************)
NoIdentifier == ""
Id_CodingKeys == "CodingKeys"
Id_super == "super"
Encodable == "Encodable"
Decodable == "Decodable"
Protocols == {Encodable, Decodable}

\* stored property i of a struct or class is named PropNames[i]
PropNames == <<"x", "y">>
\* key names of a user-declared enumeration that match no member
ExtraNames == {"q", "r"}
CaseNames == {"a", "A", "b"}
ParamLabels == {NoIdentifier, "x", "_0", "_1"}

SeqsUpTo(S, n) == UNION {[1..k -> S] : k \in 0..n}
Range(s) == {s[i] : i \in DOMAIN s}
IsInjective(s) == \A i, j \in DOMAIN s : s[i] = s[j] => i = j
\* the element of a one-element set
Only(S) == CHOOSE x \in S : TRUE
RECURSIVE SumSeq(_)
SumSeq(s) == IF s = <<>> THEN 0 ELSE Head(s) + SumSeq(Tail(s))

(***************************************************************************)
(* Declarations queried through the type/member interface.                 *)
(***************************************************************************)
\* what the synthesizer reads of a stored property, by kind of property
PropKinds ==
  {k \in [optional : BOOLEAN, encodable : BOOLEAN, decodable : BOOLEAN,
          init : {"none", "default", "initial"}, isLet : BOOLEAN,
          accessible : BOOLEAN, wrapped : BOOLEAN] :
     /\ (k.decodable => k.encodable)
     /\ (k.optional <=> k.init = "default")
     /\ (k.optional => k.encodable /\ k.decodable /\ ~k.isLet)
     /\ (k.isLet => k.init = "initial" /\ k.decodable)
     /\ ((k.encodable /\ ~k.decodable) => k.init = "none")
     /\ (~k.accessible =>
           k.decodable /\ k.init = "none" /\ ~k.wrapped)
     /\ (k.wrapped => k.decodable /\ k.init = "none")}

\* the VarDecl of stored property i: backing storage _x of a wrapped x,
\* storage $__lazy_storage_$_x that user code cannot name
VarDeclOf(k, i) ==
  [name |-> IF k.wrapped THEN "_" \o PropNames[i]
            ELSE IF ~k.accessible THEN "$__lazy_storage_$_" \o PropNames[i]
            ELSE PropNames[i],
   original |-> IF k.wrapped THEN PropNames[i] ELSE NoIdentifier,
   optional |-> k.optional, encodable |-> k.encodable,
   decodable |-> k.decodable, init |-> k.init, isLet |-> k.isLet,
   accessible |-> k.accessible, isParam |-> FALSE]

\* payload slots of an enum case
ParamDecls ==
  {p \in [name : ParamLabels, original : {NoIdentifier},
          optional : BOOLEAN, encodable : BOOLEAN, decodable : BOOLEAN,
          init : {"none", "defaultExpr"}, isLet : {TRUE},
          accessible : {TRUE}, isParam : {TRUE}] :
     /\ (p.decodable <=> p.encodable)
     /\ (p.optional => p.name = NoIdentifier)
     /\ (p.name \in {"_0", "_1"} =>
           p.encodable /\ ~p.optional /\ p.init = "none")
     /\ (p.name = NoIdentifier => p.init = "none")
     /\ p.encodable}

\* result of looking up the initializer the superclass must offer
InitLookups ==
  {l \in [count : 0..2, designated : BOOLEAN, accessible : BOOLEAN,
          failable : BOOLEAN, throws : BOOLEAN] :
     /\ (l.count # 1 =>
           l.designated /\ l.accessible /\ ~l.failable /\ ~l.throws)
     /\ (~l.designated => l.accessible /\ ~l.failable /\ ~l.throws)
     /\ (~l.accessible => ~l.failable /\ ~l.throws)
     /\ (l.failable => ~l.throws)}
OkInit ==
  [count |-> 1, designated |-> TRUE, accessible |-> TRUE,
   failable |-> FALSE, throws |-> FALSE]

Superclasses ==
  {s \in [conforms : SUBSET Protocols, initFrom : InitLookups,
          initPlain : InitLookups] :
     /\ (Decodable \in s.conforms => s.initPlain = OkInit)
     /\ (Decodable \notin s.conforms => s.initFrom.count = 0)
     /\ (s.initFrom.throws => FALSE)
     /\ (s.conforms \in {{Encodable}, {Decodable}} =>
           s.initFrom \in {OkInit, [OkInit EXCEPT !.count = 0]}
           /\ s.initPlain = OkInit)}

SuperWeight(s) ==
  IF (IF Decodable \in s.conforms THEN s.initFrom ELSE s.initPlain)
        \in {OkInit, [OkInit EXCEPT !.throws = TRUE]}
  THEN 1 ELSE 3

(***************************************************************************)
(* Key-enumeration declarations (the results of lookupDirect).             *)
(***************************************************************************)
KeyDecl(name, kind, alias, conforms, implicit, cases) ==
  [name |-> name, declKind |-> kind, alias |-> alias,
   conformsCodingKey |-> conforms, implicit |-> implicit, cases |-> cases]

\* SmallString "_" + std::to_string(index), index counted from 0
GeneratedName(index) ==
  CASE index = 0 -> "_0" [] index = 1 -> "_1" [] index = 2 -> "_2"
    [] index = 3 -> "_3" [] index = 4 -> "_4" [] OTHER -> "_5"

\* camel_case::appendSentenceCase: the first character in upper case
SentenceCase(str) ==
  CASE str = "a" -> "A" [] str = "b" -> "B" [] str = "q" -> "Q"
    [] str = "r" -> "R" [] OTHER -> str

caseCodingKeysIdentifier(name) == SentenceCase(name) \o Id_CodingKeys

getVarNameForCoding(var) ==
  IF var.original # NoIdentifier THEN var.original ELSE var.name

superclassConformsTo(target, kpk) ==
  /\ target.kind = "class"
  /\ target.super # <<>>
  /\ kpk \in target.super[1].conforms

lookupDirect(decls_, name) == SelectSeq(decls_, LAMBDA d : d.name = name)


\* variant of the lookup that never finds a declaration
lookupIndices_findsNothing(decls_, name) == <<>>

\* indices (in lookup order) of the declarations named `name`
lookupIndices(decls_, name) ==
  SelectSeq([i \in DOMAIN decls_ |-> i], LAMBDA i : decls_[i].name = name)

\* EnumDecl found by lookupDirect(...).front() and dyn_cast<EnumDecl>;
\* <<>> stands for nullptr
lookupEvaluatedCodingKeysEnum(decls_, identifier) ==
  LET found == lookupDirect(decls_, identifier) IN
  IF found = <<>> THEN <<>>
  ELSE IF found[1].declKind = "enum" THEN <<found[1]>> ELSE <<>>

\* is there an EnumElementDecl `identifier` in the enumeration
lookupEnumCase(enumDecl, identifier) ==
  \E i \in DOMAIN enumDecl.cases : enumDecl.cases[i] = identifier

(***************************************************************************)
(* Diagnostics.                                                            *)
(***************************************************************************)
Diag(kind, subject, at) == [kind |-> kind, subject |-> subject, at |-> at]
TagDiags(req, ds) ==
  [i \in DOMAIN ds |->
     [req |-> req, kind |-> ds[i].kind, subject |-> ds[i].subject,
      at |-> ds[i].at]]

(***************************************************************************)
(* Synthesis of key enumerations.                                          *)
(***************************************************************************)
addImplicitCodingKeys_enum(target) ==
  KeyDecl(Id_CodingKeys, "enum", FALSE, TRUE, TRUE,
          [i \in DOMAIN target.cases |-> target.cases[i].name])

\* name of the key of payload slot i (counted from 1) of an enum case
paramIdentifier(paramDecl, i) ==
  IF getVarNameForCoding(paramDecl) = NoIdentifier
  THEN GeneratedName(i - 1)
  ELSE getVarNameForCoding(paramDecl)

\* <<>> (nullptr) when the case has no key in the CodingKeys enumeration
addImplicitCaseCodingKeys(elementDecl, codingKeysEnum) ==
  IF ~lookupEnumCase(codingKeysEnum, elementDecl.name) THEN <<>>
  ELSE <<KeyDecl(caseCodingKeysIdentifier(elementDecl.name), "enum", FALSE,
                 TRUE, TRUE,
                 [i \in DOMAIN elementDecl.params |->
                    paramIdentifier(elementDecl.params[i], i)])>>

userAccessibleNames(props) ==
  LET acc == SelectSeq(props, LAMBDA v : v.accessible) IN
  [i \in DOMAIN acc |-> getVarNameForCoding(acc[i])]

\* variant that puts the key super after the keys of the properties
addImplicitCodingKeys_superLast(target) ==
  IF target.kind = "enum" THEN addImplicitCodingKeys_enum(target)
  ELSE KeyDecl(Id_CodingKeys, "enum", FALSE, TRUE, TRUE,
               userAccessibleNames(target.props)
               \o (IF superclassConformsTo(target, Encodable)
                      \/ superclassConformsTo(target, Decodable)
                   THEN <<Id_super>> ELSE <<>>))

addImplicitCodingKeys(target) ==
  IF target.kind = "enum" THEN addImplicitCodingKeys_enum(target)
  ELSE KeyDecl(Id_CodingKeys, "enum", FALSE, TRUE, TRUE,
               (IF superclassConformsTo(target, Encodable)
                   \/ superclassConformsTo(target, Decodable)
                THEN <<Id_super>> ELSE <<>>)
               \o userAccessibleNames(target.props))

(***************************************************************************)
(* Validation of a key enumeration against the members.                    *)
(***************************************************************************)
\* variant that takes any declaration for a key enumeration
validateCodingKeysType_acceptsAll(codingKeysTypeDecl) ==
  [ok |-> TRUE, diags |-> <<>>]

\* variant that asks for an enumeration before it asks for the conformance
validateCodingKeysType_enumFirst(codingKeysTypeDecl) ==
  IF codingKeysTypeDecl.declKind # "enum"
  THEN [ok |-> FALSE,
        diags |-> <<Diag("codable_codingkeys_type_is_not_an_enum_here",
                         codingKeysTypeDecl.name, 0)>>]
  ELSE IF ~codingKeysTypeDecl.conformsCodingKey
  THEN [ok |-> FALSE,
        diags |-> <<Diag("codable_codingkeys_type_does_not_conform_here",
                         codingKeysTypeDecl.name, 0)>>]
  ELSE [ok |-> TRUE, diags |-> <<>>]

validateCodingKeysType(codingKeysTypeDecl) ==
  IF ~codingKeysTypeDecl.conformsCodingKey
  THEN [ok |-> FALSE,
        diags |-> <<Diag("codable_codingkeys_type_does_not_conform_here",
                         codingKeysTypeDecl.name, 0)>>]
  ELSE IF codingKeysTypeDecl.declKind # "enum"
  THEN [ok |-> FALSE,
        diags |-> <<Diag("codable_codingkeys_type_is_not_an_enum_here",
                         codingKeysTypeDecl.name, 0)>>]
  ELSE [ok |-> TRUE, diags |-> <<>>]

\* SmallMapVector<Identifier, VarDecl *>: properties[key] = var
mapFind(map, key) ==
  IF \E i \in DOMAIN map : map[i].key = key
  THEN CHOOSE i \in DOMAIN map : map[i].key = key
  ELSE 0
mapAssign(map, key, var, at) ==
  IF mapFind(map, key) = 0
  THEN Append(map, [key |-> key, var |-> var, at |-> at])
  ELSE [map EXCEPT ![mapFind(map, key)] =
          [key |-> key, var |-> var, at |-> at]]
mapErase(map, pos) ==
  [i \in 1..(Len(map) - 1) |-> IF i < pos THEN map[i] ELSE map[i + 1]]

conformsToProtocol(var, proto) ==
  IF proto = Encodable THEN var.encodable ELSE var.decodable

\* variant that passes over a key naming no property
RECURSIVE matchKeys_skipUnknown(_, _, _, _)
matchKeys_skipUnknown(proto, keys, i, st) ==
  IF i > Len(keys) THEN st
  ELSE
    LET pos == mapFind(st.vars, keys[i]) IN
    IF pos = 0
    THEN matchKeys_skipUnknown(proto, keys, i + 1, st)
    ELSE IF ~conformsToProtocol(st.vars[pos].var, proto)
    THEN matchKeys_skipUnknown(proto, keys, i + 1,
           [st EXCEPT
              !.diags = Append(@,
                 Diag("codable_non_conforming_property_here",
                      st.vars[pos].key, st.vars[pos].at)),
              !.valid = FALSE])
    ELSE matchKeys_skipUnknown(proto, keys, i + 1,
           [st EXCEPT !.vars = mapErase(@, pos)])

\* the loop over the cases of the key enumeration;
\* st = [vars, diags, valid]
RECURSIVE matchKeys(_, _, _, _)
matchKeys(proto, keys, i, st) ==
  IF i > Len(keys) THEN st
  ELSE
    LET pos == mapFind(st.vars, keys[i]) IN
    IF pos = 0
    THEN matchKeys(proto, keys, i + 1,
           [st EXCEPT
              !.diags = Append(@,
                 Diag("codable_extraneous_codingkey_case_here", keys[i], i)),
              !.valid = FALSE])
    ELSE IF ~conformsToProtocol(st.vars[pos].var, proto)
    THEN matchKeys(proto, keys, i + 1,
           [st EXCEPT
              !.diags = Append(@,
                 Diag("codable_non_conforming_property_here",
                      st.vars[pos].key, st.vars[pos].at)),
              !.valid = FALSE])
    ELSE matchKeys(proto, keys, i + 1,
           [st EXCEPT !.vars = mapErase(@, pos)])

\* variant that lets only payload slots with a default expression be skipped
isDefaultable_slotsOnly(var) == var.isParam /\ var.init = "defaultExpr"

\* variant that lets every payload slot be skipped
isDefaultable_anySlot(var) ==
  \/ ~var.isParam /\ var.init \in {"default", "initial"}
  \/ var.isParam

\* may decoding skip this member, which no key covers
isDefaultable(var) ==
  \/ ~var.isParam /\ var.init \in {"default", "initial"}
  \/ ~var.isParam /\ var.init = "initial"
  \/ var.isParam /\ var.init = "defaultExpr"

nonDecodedDiags(vars_) ==
  LET left == SelectSeq(vars_, LAMBDA e : ~isDefaultable(e.var)) IN
  [i \in DOMAIN left |->
     Diag("codable_non_decoded_property_here", left[i].key, left[i].at)]

\* variant that requires a key or a default value for either requirement
validateCodingKeysEnumVars_bothDirections(proto, varDecls, codingKeysTypeDecl) ==
  LET t == validateCodingKeysType(codingKeysTypeDecl) IN
  IF ~t.ok THEN t
  ELSE
    Only({
      IF ~st.valid THEN [ok |-> FALSE, diags |-> st.diags]
      ELSE [ok |-> nonDecodedDiags(st.vars) = <<>>,
            diags |-> nonDecodedDiags(st.vars)] :
      st \in {matchKeys(proto, codingKeysTypeDecl.cases, 1,
                [vars |-> varDecls, diags |-> <<>>, valid |-> TRUE])}})

validateCodingKeysEnumVars(proto, varDecls, codingKeysTypeDecl) ==
  LET t == validateCodingKeysType(codingKeysTypeDecl) IN
  IF ~t.ok THEN t
  ELSE
    Only({
      IF ~st.valid THEN [ok |-> FALSE, diags |-> st.diags]
      ELSE IF proto = Decodable
      THEN [ok |-> nonDecodedDiags(st.vars) = <<>>,
            diags |-> nonDecodedDiags(st.vars)]
      ELSE [ok |-> TRUE, diags |-> <<>>] :
      st \in {matchKeys(proto, codingKeysTypeDecl.cases, 1,
                [vars |-> varDecls, diags |-> <<>>, valid |-> TRUE])}})

\* variant that stops at the first extraneous key
validateCodingKeysEnum_enum_firstOnly(target, codingKeysTypeDecl) ==
  LET caseNames == {target.cases[i].name : i \in DOMAIN target.cases}
      t == validateCodingKeysType(codingKeysTypeDecl)
      keys == codingKeysTypeDecl.cases
      extra == SelectSeq([i \in DOMAIN keys |-> i],
                         LAMBDA i : keys[i] \notin caseNames)
  IN
  IF ~t.ok THEN t
  ELSE [ok |-> extra = <<>>,
        diags |-> IF extra = <<>> THEN <<>>
                  ELSE <<Diag("codable_extraneous_codingkey_case_here",
                              keys[extra[1]], extra[1])>>]

validateCodingKeysEnum_enum(target, codingKeysTypeDecl) ==
  LET caseNames == {target.cases[i].name : i \in DOMAIN target.cases}
      t == validateCodingKeysType(codingKeysTypeDecl)
      keys == codingKeysTypeDecl.cases
      extra == SelectSeq([i \in DOMAIN keys |-> i],
                         LAMBDA i : keys[i] \notin caseNames)
  IN
  IF ~t.ok THEN t
  ELSE [ok |-> extra = <<>>,
        diags |-> [j \in DOMAIN extra |->
                     Diag("codable_extraneous_codingkey_case_here",
                          keys[extra[j]], extra[j])]]

\* properties[getVarNameForCoding(varDecl)] = varDecl, user-accessible only
RECURSIVE storedPropertiesMap(_, _, _)
storedPropertiesMap(vars_, i, map) ==
  IF i > Len(vars_) THEN map
  ELSE storedPropertiesMap(vars_, i + 1,
         IF vars_[i].accessible
         THEN mapAssign(map, getVarNameForCoding(vars_[i]), vars_[i], i)
         ELSE map)

\* properties[identifier] = paramDecl, unnamed slots named by their index
RECURSIVE caseParametersMap(_, _, _)
caseParametersMap(params, i, map) ==
  IF i > Len(params) THEN map
  ELSE caseParametersMap(params, i + 1,
         IF params[i].accessible
         THEN mapAssign(map, paramIdentifier(params[i], i), params[i], i)
         ELSE map)

\* variant that detaches the enumeration it synthesized when the validation
\* fails
validateCodingKeysEnumFound_rollback(target, decls_, proto, found) ==
  IF Len(found) > 1
  THEN [ok |-> FALSE, diags |-> <<>>, members |-> decls_, used |-> 0]
  ELSE
    LET after == IF found = <<>>
                 THEN Append(decls_, addImplicitCodingKeys(target))
                 ELSE decls_
        idx == IF found = <<>> THEN Len(after) ELSE found[1]
        result == after[idx]
    IN
    IF result.declKind = "var"
    THEN [ok |-> FALSE,
          diags |-> <<Diag("codable_codingkeys_type_is_not_an_enum_here",
                           result.name, 0)>>,
          members |-> after, used |-> idx]
    ELSE
      Only({v @@ [members |-> IF v.ok THEN after ELSE decls_,
                  used |-> IF v.ok \/ found # <<>> THEN idx ELSE 0] :
            v \in {IF target.kind = "enum"
                   THEN validateCodingKeysEnum_enum(target, result)
                   ELSE validateCodingKeysEnumVars(proto,
                          storedPropertiesMap(target.props, 1, <<>>),
                          result)}})

\* result: [ok, diags, members, used]; used is the index in members of the
\* key enumeration that was validated (0: none)
validateCodingKeysEnumFound(target, decls_, proto, found) ==
  IF Len(found) > 1
  THEN [ok |-> FALSE, diags |-> <<>>, members |-> decls_, used |-> 0]
  ELSE
    LET after == IF found = <<>>
                 THEN Append(decls_, addImplicitCodingKeys(target))
                 ELSE decls_
        idx == IF found = <<>> THEN Len(after) ELSE found[1]
        result == after[idx]
    IN
    IF result.declKind = "var"
    THEN [ok |-> FALSE,
          diags |-> <<Diag("codable_codingkeys_type_is_not_an_enum_here",
                           result.name, 0)>>,
          members |-> after, used |-> idx]
    ELSE
      (IF target.kind = "enum"
       THEN validateCodingKeysEnum_enum(target, result)
       ELSE validateCodingKeysEnumVars(proto,
              storedPropertiesMap(target.props, 1, <<>>), result))
      @@ [members |-> after, used |-> idx]

\* found is the result of lookupDirect(CodingKeys) on the type
validateCodingKeysEnum(target, decls_, proto) ==
  validateCodingKeysEnumFound(target, decls_, proto,
                              lookupIndices(decls_, Id_CodingKeys))

\* result: [ok, diags, members, ub]; ub: dyn_cast<TypeDecl> was applied to
\* the nullptr that addImplicitCaseCodingKeys returned
validateCaseCodingKeysEnum(target, decls_, proto, elementDecl) ==
  LET codingKeysEnum == lookupEvaluatedCodingKeysEnum(decls_, Id_CodingKeys)
      cckIdentifier == caseCodingKeysIdentifier(elementDecl.name)
      found == lookupIndices(decls_, cckIdentifier)
  IN
  IF Len(found) > 1
  THEN [ok |-> FALSE, diags |-> <<>>, members |-> decls_, ub |-> FALSE]
  ELSE
    LET added == IF found = <<>>
                 THEN addImplicitCaseCodingKeys(elementDecl, codingKeysEnum[1])
                 ELSE <<>>
        after == decls_ \o added
    IN
    IF found = <<>> /\ added = <<>>
    THEN [ok |-> FALSE, diags |-> <<>>, members |-> decls_, ub |-> TRUE]
    ELSE
      LET result == IF found = <<>> THEN after[Len(after)]
                    ELSE decls_[found[1]]
      IN
      IF result.declKind = "var"
      THEN [ok |-> FALSE,
            diags |-> <<Diag("codable_codingkeys_type_is_not_an_enum_here",
                             result.name, 0)>>,
            members |-> after, ub |-> FALSE]
      ELSE
        validateCodingKeysEnumVars(proto,
          caseParametersMap(elementDecl.params, 1, <<>>), result)
        @@ [members |-> after, ub |-> FALSE]

(***************************************************************************)
(* canSynthesize.                                                          *)
(***************************************************************************)
\* the initializer of the superclass that init(from:) has to call
requiredSuperInit(superclass) ==
  IF Decodable \in superclass.conforms
  THEN superclass.initFrom
  ELSE superclass.initPlain

\* variant that checks the initializer for either requirement
checkSuperInit_bothRequirements(target, proto) ==
  IF ~(target.kind = "class" /\ target.super # <<>>)
  THEN [ok |-> TRUE, diags |-> <<>>]
  ELSE
    LET result == requiredSuperInit(target.super[1]) IN
    IF result.count = 0
    THEN [ok |-> FALSE,
          diags |-> <<Diag("decodable_no_super_init_here", "init", 0)>>]
    ELSE IF result.count > 1
    THEN [ok |-> FALSE, diags |-> <<>>]
    ELSE IF ~result.designated
    THEN [ok |-> FALSE,
          diags |-> <<Diag("decodable_super_init_not_designated_here",
                           "init", 0)>>]
    ELSE IF ~result.accessible
    THEN [ok |-> FALSE,
          diags |-> <<Diag("decodable_inaccessible_super_init_here",
                           "init", 0)>>]
    ELSE IF result.failable
    THEN [ok |-> FALSE,
          diags |-> <<Diag("decodable_super_init_is_failable_here",
                           "init", 0)>>]
    ELSE [ok |-> TRUE, diags |-> <<>>]

\* result: [ok, diags]
checkSuperInit(target, proto) ==
  IF ~(proto = Decodable /\ target.kind = "class" /\ target.super # <<>>)
  THEN [ok |-> TRUE, diags |-> <<>>]
  ELSE
    LET result == requiredSuperInit(target.super[1]) IN
    IF result.count = 0
    THEN [ok |-> FALSE,
          diags |-> <<Diag("decodable_no_super_init_here", "init", 0)>>]
    ELSE IF result.count > 1
    THEN [ok |-> FALSE, diags |-> <<>>]
    ELSE IF ~result.designated
    THEN [ok |-> FALSE,
          diags |-> <<Diag("decodable_super_init_not_designated_here",
                           "init", 0)>>]
    ELSE IF ~result.accessible
    THEN [ok |-> FALSE,
          diags |-> <<Diag("decodable_inaccessible_super_init_here",
                           "init", 0)>>]
    ELSE IF result.failable
    THEN [ok |-> FALSE,
          diags |-> <<Diag("decodable_super_init_is_failable_here",
                           "init", 0)>>]
    ELSE [ok |-> TRUE, diags |-> <<>>]

\* diagnostics of the duplicate payload names of one case; seen maps each
\* name to the slot inserted first
RECURSIVE duplicateParameterDiags(_, _, _, _)
duplicateParameterDiags(elementDecl, i, seen, out) ==
  IF i > Len(elementDecl.params) THEN out
  ELSE
    LET paramDecl == elementDecl.params[i]
        generatedName == getVarNameForCoding(paramDecl) = NoIdentifier
        identifier == paramIdentifier(paramDecl, i)
        pos == mapFind(seen, identifier)
    IN
    IF pos = 0
    THEN duplicateParameterDiags(elementDecl, i + 1,
           Append(seen, [key |-> identifier, var |-> paramDecl, at |-> i]),
           out)
    ELSE duplicateParameterDiags(elementDecl, i + 1, seen,
           Append(out,
             Diag("codable_enum_duplicate_parameter_name_here", identifier,
                  IF generatedName THEN seen[pos].at ELSE i)))

\* the loop over the cases of an enum;
\* st = [members, diags, allValid, caseNames, ub]
RECURSIVE validateCases(_, _, _, _)
validateCases(target, proto, i, st) ==
  IF i > Len(target.cases) \/ st.ub THEN st
  ELSE
    LET elementDecl == target.cases[i]
        duplicate == elementDecl.name \in st.caseNames
        dupDiags == IF duplicate
                    THEN <<Diag("codable_enum_duplicate_case_name_here",
                                elementDecl.name, i)>>
                    ELSE <<>>
        parDiags == duplicateParameterDiags(elementDecl, 1, <<>>, <<>>)
        v == IF duplicate
             THEN [ok |-> TRUE, diags |-> <<>>, members |-> st.members,
                   ub |-> FALSE]
             ELSE validateCaseCodingKeysEnum(target, st.members, proto,
                                             elementDecl)
    IN
    validateCases(target, proto, i + 1,
      Only({[members |-> w.members,
             diags |-> st.diags \o dupDiags \o parDiags \o w.diags,
             allValid |-> st.allValid /\ ~duplicate /\ parDiags = <<>>
                          /\ w.ok,
             caseNames |-> st.caseNames \cup {elementDecl.name},
             ub |-> w.ub] : w \in {v}}))

\* variant that validates the key enumeration before it checks the
\* initializer of the superclass
canSynthesize_keysFirst(target, decls_, proto) ==
  Only({
    Only({
      IF ~sup.ok
      THEN [ok |-> FALSE, diags |-> v.diags \o sup.diags,
            members |-> v.members, used |-> v.used, ub |-> FALSE]
      ELSE IF ~v.ok \/ target.kind # "enum"
      THEN [ok |-> v.ok, diags |-> v.diags, members |-> v.members,
            used |-> v.used, ub |-> FALSE]
      ELSE Only({
        [ok |-> st.allValid /\ ~st.ub, diags |-> st.diags,
         members |-> st.members, used |-> v.used, ub |-> st.ub] :
        st \in {validateCases(target, proto, 1,
                  [members |-> v.members, diags |-> <<>>, allValid |-> TRUE,
                   caseNames |-> {}, ub |-> FALSE])}}) :
      sup \in {checkSuperInit(target, proto)}}) :
    v \in {validateCodingKeysEnum(target, decls_, proto)}})

\* result: [ok, diags, members, used, ub]
canSynthesizeFound(target, decls_, proto, found) ==
  Only({
    IF ~sup.ok
    THEN [ok |-> FALSE, diags |-> sup.diags, members |-> decls_, used |-> 0,
          ub |-> FALSE]
    ELSE Only({
      IF ~v.ok \/ target.kind # "enum"
      THEN [ok |-> v.ok, diags |-> v.diags, members |-> v.members,
            used |-> v.used, ub |-> FALSE]
      ELSE Only({
        [ok |-> st.allValid /\ ~st.ub, diags |-> st.diags,
         members |-> st.members, used |-> v.used, ub |-> st.ub] :
        st \in {validateCases(target, proto, 1,
                  [members |-> v.members, diags |-> <<>>, allValid |-> TRUE,
                   caseNames |-> {}, ub |-> FALSE])}}) :
      v \in {validateCodingKeysEnumFound(target, decls_, proto, found)}}) :
    sup \in {checkSuperInit(target, proto)}})

canSynthesize(target, decls_, proto) ==
  canSynthesizeFound(target, decls_, proto,
                     lookupIndices(decls_, Id_CodingKeys))

(***************************************************************************)
(* Synthesized bodies.  A body is a sequence of statements; <<>> stands    *)
(* for a lookup that found nothing.                                        *)
(***************************************************************************)
Stmt(op, key, var, slot) ==
  [op |-> op, key |-> key, var |-> var, slot |-> slot]
AcquireContainer == Stmt("container", NoIdentifier, NoIdentifier, 0)

\* variant that never asks for the if-present calls
lookupVarDeclForCodingKeysCase_neverIfPresent(elt, targetDecl) ==
  LET found == SelectSeq(targetDecl.props,
                 LAMBDA v : v.name = elt \/ v.original = elt)
  IN IF found = <<>> THEN <<>>
     ELSE <<[var |-> found[1], useIfPresentVariant |-> FALSE]>>

\* the first non-static VarDecl named as the key: a stored property, or
\* the backing storage of the wrapped property of that name
lookupVarDeclForCodingKeysCase(elt, targetDecl) ==
  LET found == SelectSeq(targetDecl.props,
                 LAMBDA v : v.name = elt \/ v.original = elt)
  IN IF found = <<>> THEN <<>>
     ELSE <<[var |-> found[1], useIfPresentVariant |-> found[1].optional]>>

\* every key resolves to a property ("Should have found at least 1 var decl")
keysResolve(codingKeysEnum, targetDecl) ==
  \A i \in DOMAIN codingKeysEnum.cases :
     lookupVarDeclForCodingKeysCase(codingKeysEnum.cases[i], targetDecl)
       # <<>>

encodeStmtFor(elt, targetDecl) ==
  LET r == lookupVarDeclForCodingKeysCase(elt, targetDecl)[1] IN
  Stmt(IF r.useIfPresentVariant THEN "encodeIfPresent" ELSE "encode",
       elt, r.var.name, 0)

deriveBodyEncodable_encode(targetDecl, decls_) ==
  LET codingKeysEnum == lookupEvaluatedCodingKeysEnum(decls_, Id_CodingKeys)[1]
      keys == codingKeysEnum.cases
  IN
  <<AcquireContainer>>
  \o [i \in DOMAIN keys |-> encodeStmtFor(keys[i], targetDecl)]
  \o (IF superclassConformsTo(targetDecl, Encodable)
      THEN <<Stmt("superEncode", NoIdentifier, NoIdentifier, 0)>>
      ELSE <<>>)

\* variant that skips a let only when it has no initial value
skipsDecoding_uninitialized(varDecl) ==
  varDecl.isLet /\ varDecl.init # "initial"

\* "Don't output a decode statement for a let with an initial value."
skipsDecoding(varDecl) == varDecl.isLet /\ varDecl.init = "initial"

decodeStmtsFor(elt, targetDecl) ==
  LET r == lookupVarDeclForCodingKeysCase(elt, targetDecl)[1] IN
  IF skipsDecoding(r.var) THEN <<>>
  ELSE <<Stmt(IF r.useIfPresentVariant THEN "decodeIfPresent" ELSE "decode",
              elt, r.var.name, 0)>>

RECURSIVE Flatten(_)
Flatten(ss) == IF ss = <<>> THEN <<>> ELSE Head(ss) \o Flatten(Tail(ss))

superInitStmts(targetDecl) ==
  IF targetDecl.kind = "class" /\ targetDecl.super # <<>>
  THEN IF superclassConformsTo(targetDecl, Decodable)
       THEN <<Stmt("superInitFrom", NoIdentifier, NoIdentifier, 0)>>
       ELSE <<Stmt(IF targetDecl.super[1].initPlain.throws
                   THEN "trySuperInit" ELSE "superInit",
                   NoIdentifier, NoIdentifier, 0)>>
  ELSE <<>>

\* variant that acquires the container also for a key enumeration without
\* cases
deriveBodyDecodable_init_alwaysAcquires(targetDecl, decls_) ==
  LET codingKeysEnum == lookupEvaluatedCodingKeysEnum(decls_, Id_CodingKeys)[1]
      enumElements == codingKeysEnum.cases
  IN
  <<AcquireContainer>>
  \o Flatten([i \in DOMAIN enumElements |->
                decodeStmtsFor(enumElements[i], targetDecl)])
  \o superInitStmts(targetDecl)

deriveBodyDecodable_init(targetDecl, decls_) ==
  LET codingKeysEnum == lookupEvaluatedCodingKeysEnum(decls_, Id_CodingKeys)[1]
      enumElements == codingKeysEnum.cases
  IN
  (IF enumElements # <<>>
   THEN <<AcquireContainer>>
        \o Flatten([i \in DOMAIN enumElements |->
                      decodeStmtsFor(enumElements[i], targetDecl)])
   ELSE <<>>)
  \o superInitStmts(targetDecl)

\* the warnings of deriveBodyDecodable_init for one key
willNotBeDecodedDiags(elt, targetDecl, codingKeysEnum) ==
  LET varDecl == lookupVarDeclForCodingKeysCase(elt, targetDecl)[1].var
      keyExistsInCodingKeys == lookupEnumCase(codingKeysEnum, varDecl.name)
      conformsToEncodable == targetDecl.conformsEncodable
  IN
  IF ~skipsDecoding(varDecl) THEN <<>>
  ELSE IF ~codingKeysEnum.implicit
          /\ (conformsToEncodable \/ ~keyExistsInCodingKeys)
  THEN <<>>
  ELSE <<Diag("decodable_property_will_not_be_decoded", varDecl.name, 0),
         Diag(IF codingKeysEnum.implicit
              THEN "decodable_property_init_or_codingkeys_implicit"
              ELSE "decodable_property_init_or_codingkeys_explicit",
              varDecl.name, IF conformsToEncodable THEN 0 ELSE 1),
         Diag("decodable_make_property_mutable", varDecl.name, 0)>>

deriveBodyDecodable_init_diags(targetDecl, decls_) ==
  LET codingKeysEnum == lookupEvaluatedCodingKeysEnum(decls_, Id_CodingKeys)[1]
      enumElements == codingKeysEnum.cases
  IN Flatten([i \in DOMAIN enumElements |->
                willNotBeDecodedDiags(enumElements[i], targetDecl,
                                      codingKeysEnum)])


(***************************************************************************)
(* Synthesized bodies of an enum.                                          *)
(***************************************************************************)
ExpectedOneMessage == "Invalid number of keys found, expected one."

\* the key enumeration of a case, as the body synthesizers look it up
caseCodingKeysOf(elt, decls_) ==
  lookupEvaluatedCodingKeysEnum(decls_, caseCodingKeysIdentifier(elt.name))

\* the encode calls of the payload of one case: slots without a key are
\* skipped
payloadEncodeStmts(elt, caseCodingKeys) ==
  LET keyed == SelectSeq([i \in DOMAIN elt.params |-> i],
                 LAMBDA i : lookupEnumCase(caseCodingKeys,
                              paramIdentifier(elt.params[i], i)))
  IN [j \in DOMAIN keyed |->
        Stmt(IF elt.params[keyed[j]].optional
             THEN "encodeIfPresent" ELSE "encode",
             paramIdentifier(elt.params[keyed[j]], keyed[j]),
             NoIdentifier, keyed[j])]

encodeBranch(elt, i, codingKeysEnum, decls_) ==
  IF ~lookupEnumCase(codingKeysEnum, elt.name)
  THEN [case |-> elt.name, element |-> i,
        stmts |-> <<Stmt("throwInvalidValue", NoIdentifier, NoIdentifier, 0)>>]
  ELSE [case |-> elt.name, element |-> i,
        stmts |->
          <<Stmt("nestedContainer", elt.name,
                 caseCodingKeysIdentifier(elt.name), 0)>>
          \o payloadEncodeStmts(elt, caseCodingKeysOf(elt, decls_)[1])]

\* the case key enumerations the body dereferences are there
caseCodingKeysResolve(targetEnum, decls_) ==
  LET codingKeysEnum == lookupEvaluatedCodingKeysEnum(decls_, Id_CodingKeys)[1]
  IN \A i \in DOMAIN targetEnum.cases :
       lookupEnumCase(codingKeysEnum, targetEnum.cases[i].name)
         => caseCodingKeysOf(targetEnum.cases[i], decls_) # <<>>

deriveBodyEncodable_enum_encode(enumDecl, decls_) ==
  LET codingKeysEnum == lookupEvaluatedCodingKeysEnum(decls_, Id_CodingKeys)[1]
  IN
  <<AcquireContainer,
    [op |-> "switch",
     branches |-> [i \in DOMAIN enumDecl.cases |->
                     encodeBranch(enumDecl.cases[i], i, codingKeysEnum,
                                  decls_)]]>>

\* the argument of payload slot i in the construction of the case value
decodeArgument(elt, i, caseCodingKeys) ==
  IF ~lookupEnumCase(caseCodingKeys, paramIdentifier(elt.params[i], i))
  THEN Stmt("defaultExpr", NoIdentifier, elt.params[i].name, i)
  ELSE Stmt("decode", paramIdentifier(elt.params[i], i),
            elt.params[i].name, i)

\* the unkeyed slots have a default expression
\* (assert(paramDecl->hasDefaultExpr()))
defaultExprsExist(elt, caseCodingKeys) ==
  \A i \in DOMAIN elt.params :
     ~lookupEnumCase(caseCodingKeys, paramIdentifier(elt.params[i], i))
       => elt.params[i].init = "defaultExpr"

decodeBranch(elt, i, decls_) ==
  [key |-> elt.name, element |-> i,
   stmts |->
     <<Stmt("nestedContainer", elt.name,
            caseCodingKeysIdentifier(elt.name), 0)>>
     \o [j \in DOMAIN elt.params |->
           decodeArgument(elt, j, caseCodingKeysOf(elt, decls_)[1])]
     \o <<Stmt("assignSelf", NoIdentifier, elt.name, i)>>]

GuardOneKey ==
  [op |-> "guard", cond |-> "container.allKeys.count == 1",
   error |-> "DecodingError.typeMismatch",
   codingPath |-> "container.codingPath",
   debugDescription |-> ExpectedOneMessage]

\* variant that checks the number of keys after the dispatch
deriveBodyDecodable_enum_init_guardLast(targetEnum, decls_) ==
  LET codingKeysEnum == lookupEvaluatedCodingKeysEnum(decls_, Id_CodingKeys)[1]
      keyed == SelectSeq([i \in DOMAIN targetEnum.cases |-> i],
                 LAMBDA i : lookupEnumCase(codingKeysEnum,
                                           targetEnum.cases[i].name))
  IN
  IF codingKeysEnum.cases = <<>> THEN <<>>
  ELSE <<AcquireContainer,
         [op |-> "switch",
          branches |-> [j \in DOMAIN keyed |->
                          decodeBranch(targetEnum.cases[keyed[j]], keyed[j],
                                       decls_)]],
         GuardOneKey>>

deriveBodyDecodable_enum_init(targetEnum, decls_) ==
  LET codingKeysEnum == lookupEvaluatedCodingKeysEnum(decls_, Id_CodingKeys)[1]
      keyed == SelectSeq([i \in DOMAIN targetEnum.cases |-> i],
                 LAMBDA i : lookupEnumCase(codingKeysEnum,
                                           targetEnum.cases[i].name))
  IN
  IF codingKeysEnum.cases = <<>> THEN <<>>
  ELSE <<AcquireContainer,
         GuardOneKey,
         [op |-> "switch",
          branches |-> [j \in DOMAIN keyed |->
                          decodeBranch(targetEnum.cases[keyed[j]], keyed[j],
                                       decls_)]]>>


(***************************************************************************)
(* Execution of the synthesized bodies on a keyed container: encode writes  *)
(* the key, encodeIfPresent writes it only for a present value, decode      *)
(* throws on a missing key, decodeIfPresent yields nil on a missing key.    *)
(* A container is a set of [key, val] entries.                              *)
(***************************************************************************)
Nil == "nil"
Thrown == "throw"

\* the values a stored property / payload slot can hold
ValuesOf(varDecl) ==
  IF varDecl.optional THEN {Nil, "some"}
  ELSE IF varDecl.init = "none" THEN {"some"}
  ELSE IF varDecl.isLet /\ ~varDecl.isParam THEN {varDecl.init}
  ELSE {varDecl.init, "some"}

\* the value a member has when nothing is assigned to it
InitialValueOf(varDecl) ==
  IF varDecl.init = "default" THEN Nil ELSE varDecl.init

StructValues(targetDecl) ==
  {v \in [DOMAIN targetDecl.props -> {Nil, "some", "initial"}] :
     \A i \in DOMAIN targetDecl.props : v[i] \in ValuesOf(targetDecl.props[i])}

EnumValues(enumDecl) ==
  UNION {{[element |-> i, payload |-> pl] :
            pl \in {pl \in [DOMAIN enumDecl.cases[i].params ->
                              {Nil, "some", "defaultExpr"}] :
                      \A j \in DOMAIN pl :
                         pl[j] \in ValuesOf(enumDecl.cases[i].params[j])}} :
           i \in DOMAIN enumDecl.cases}

hasKey(container, key) == \E e \in container : e.key = key
valueForKey(container, key) == (CHOOSE e \in container : e.key = key).val

propIndex(targetDecl, name) ==
  CHOOSE i \in DOMAIN targetDecl.props : targetDecl.props[i].name = name

isEncodeCall(stmt) == stmt.op \in {"encode", "encodeIfPresent"}

\* the entries the encode calls among stmts write; operands[n] is the value
\* that statement n passes
writtenEntries(stmts, operands) ==
  {[key |-> stmts[n].key, val |-> operands[n]] :
     n \in {n \in DOMAIN stmts :
              \/ stmts[n].op = "encode"
              \/ stmts[n].op = "encodeIfPresent" /\ operands[n] # Nil}}

\* encode(to:) of a struct or class on the value v
runEncode(body, targetDecl, v) ==
  writtenEntries(body,
    [n \in DOMAIN body |->
       IF isEncodeCall(body[n])
       THEN v[propIndex(targetDecl, body[n].var)] ELSE Nil])

\* what a decode call yields on the container
runDecodeCall(stmt, container) ==
  IF hasKey(container, stmt.key) THEN valueForKey(container, stmt.key)
  ELSE IF stmt.op = "decodeIfPresent" THEN Nil
  ELSE Thrown

isDecodeCall(stmt) == stmt.op \in {"decode", "decodeIfPresent"}

\* init(from:) of a struct or class on the container
runInit(body, targetDecl, container) ==
  LET calls == SelectSeq(body, isDecodeCall)
      assigned(i) == {n \in DOMAIN calls :
                        propIndex(targetDecl, calls[n].var) = i}
  IN
  IF \E n \in DOMAIN calls : runDecodeCall(calls[n], container) = Thrown
  THEN [outcome |-> Thrown]
  ELSE [outcome |-> "value",
        value |->
          [i \in DOMAIN targetDecl.props |->
             IF assigned(i) = {}
             THEN InitialValueOf(targetDecl.props[i])
             ELSE runDecodeCall(calls[CHOOSE n \in assigned(i) : TRUE],
                                container)]]

\* encode(to:) of an enum on the value v; the container gets one entry,
\* whose value is the nested container of the case
runEnumEncode(body, v) ==
  LET branch == body[2].branches[v.element] IN
  IF \E n \in DOMAIN branch.stmts : branch.stmts[n].op = "throwInvalidValue"
  THEN [outcome |-> Thrown, error |-> "EncodingError.invalidValue"]
  ELSE [outcome |-> "written",
        allKeys |-> <<branch.case>>,
        container |->
          {[key |-> branch.case,
            val |-> writtenEntries(branch.stmts,
                     [n \in DOMAIN branch.stmts |->
                        IF isEncodeCall(branch.stmts[n])
                        THEN v.payload[branch.stmts[n].slot] ELSE Nil])]}]

\* the guard of init(from:) of an enum lets the container through
guardPasses(guard, allKeys) ==
  guard.cond = "container.allKeys.count == 1" /\ Len(allKeys) = 1

\* the branches that switch container.allKeys.first selects
selectedBranches(switch, allKeys) ==
  SelectSeq(switch.branches, LAMBDA b : b.key = allKeys[1])

\* init(from:) of an enum on a container exposing allKeys (in order), whose
\* entry for a key holds the nested container
runEnumInit(body, allKeys, container) ==
  IF body = <<>> THEN [outcome |-> "no value"]
  ELSE IF body[2].op = "guard" /\ ~guardPasses(body[2], allKeys)
  THEN [outcome |-> Thrown, error |-> body[2].error,
        codingPath |-> body[2].codingPath,
        debugDescription |-> body[2].debugDescription]
  ELSE
    LET switch == body[Len(body)]
        taken == selectedBranches(switch, allKeys)
    IN
    IF allKeys = <<>> \/ taken = <<>> THEN [outcome |-> "no branch"]
    ELSE
      LET branch == taken[1]
          nested == valueForKey(container, branch.key)
          args == SelectSeq(branch.stmts,
                    LAMBDA st : st.op \in {"decode", "decodeIfPresent",
                                            "defaultExpr"})
          arg(n) == IF args[n].op = "defaultExpr" THEN "defaultExpr"
                    ELSE runDecodeCall(args[n], nested)
      IN
      IF \E n \in DOMAIN args : arg(n) = Thrown
      THEN [outcome |-> Thrown, error |-> "DecodingError.keyNotFound",
            in |-> branch.element]
      ELSE [outcome |-> "value",
            value |-> [element |-> branch.element,
                       payload |-> [n \in DOMAIN args |-> arg(n)]]]

(***************************************************************************)
(* The declarations explored: every struct, class and enum over the names  *)
(* above whose size is at most MaxSize.                                    *)
(***************************************************************************)
KeyLists(names, n) == {s \in SeqsUpTo(names, n) : IsInjective(s)}
Min(a, b) == IF a < b THEN a ELSE b

PropLists ==
  UNION {{[i \in 1..n |-> VarDeclOf(ks[i], i)] : ks \in [1..n -> PropKinds]} :
           n \in 0..Min(Len(PropNames), MaxSize)}

\* the case lists of size (cases + payload slots) at most b
CaseLists[b \in 0..(MaxSize + 1)] ==
  IF b = 0 THEN {<<>>}
  ELSE {<<>>} \cup
       UNION {{<<c>> \o rest : rest \in CaseLists[b - 1 - Len(c.params)]} :
                c \in [name : CaseNames,
                       params : SeqsUpTo(ParamDecls, b - 1)]}

\* up to renaming the first case is called a
EnumTypes ==
  {[kind |-> "enum", props |-> <<>>, cases |-> cs, super |-> <<>>,
    conformsEncodable |-> TRUE] :
     cs \in {cs \in CaseLists[MaxSize] : cs # <<>> => cs[1].name = "a"}}

StructTypes ==
  {[kind |-> "struct", props |-> ps, cases |-> <<>>, super |-> <<>>,
    conformsEncodable |-> e] : ps \in PropLists, e \in BOOLEAN}

\* classes without superclass (super = <<>>) and with one
ClassTypes ==
  {t \in [kind : {"class"}, props : PropLists, cases : {<<>>},
          super : {<<>>} \cup {<<s>> : s \in Superclasses},
          conformsEncodable : BOOLEAN] :
     Len(t.props)
       + (IF t.super = <<>> THEN 0 ELSE SuperWeight(t.super[1])) <= MaxSize}

Types == StructTypes \cup ClassTypes \cup EnumTypes

Weight(t) ==
  Len(t.props) + Len(t.cases)
  + SumSeq([i \in DOMAIN t.cases |-> Len(t.cases[i].params)])
  + (IF t.super = <<>> THEN 0 ELSE SuperWeight(t.super[1]))

\* names a user-declared CodingKeys enumeration takes its cases from
TopKeyNames(t) ==
  ExtraNames
  \cup {getVarNameForCoding(t.props[i]) :
          i \in {i \in DOMAIN t.props : t.props[i].accessible}}
  \cup {t.cases[i].name : i \in DOMAIN t.cases}

\* the user's declarations named CodingKeys, within r keys
UserCodingKeys(t, r) ==
  {<<>>}
  \cup {<<KeyDecl(Id_CodingKeys, "enum", FALSE, TRUE, FALSE, l)>> :
          l \in KeyLists(TopKeyNames(t), r)}
  \cup (IF r < 1 THEN {}
        ELSE {<<KeyDecl(Id_CodingKeys, "enum", ac[1], ac[2], FALSE, l)>> :
                l \in KeyLists(TopKeyNames(t), Min(r - 1, 1)),
                ac \in {<<TRUE, TRUE>>, <<FALSE, FALSE>>, <<TRUE, FALSE>>}}
             \cup {<<KeyDecl(Id_CodingKeys, "struct", FALSE, c, FALSE, <<>>)>> :
                     c \in BOOLEAN}
             \cup {<<KeyDecl(Id_CodingKeys, "var", FALSE, FALSE, FALSE, <<>>)>>,
                   <<KeyDecl(Id_CodingKeys, "enum", FALSE, TRUE, FALSE, <<>>),
                     KeyDecl(Id_CodingKeys, "var", FALSE, FALSE, FALSE, <<>>)>>})

\* size of a user-declared <Case>CodingKeys enumeration with the keys l
caseKeysWeight(l) == IF l = <<>> THEN 1 ELSE Len(l)

declsWeight(ds) ==
  SumSeq([i \in DOMAIN ds |->
            IF ds[i].name # Id_CodingKeys
            THEN caseKeysWeight(ds[i].cases)
            ELSE Len(ds[i].cases)
                 + (IF ds[i].declKind = "enum" /\ ~ds[i].alias
                       /\ ds[i].conformsCodingKey /\ Len(ds) = 1
                    THEN 0 ELSE 1)])

CaseKeyNames(c) ==
  {"q"} \cup {paramIdentifier(c.params[i], i) : i \in DOMAIN c.params}

\* the user's declarations of <Case>CodingKeys enumerations for the cases
\* from i on, within r
RECURSIVE UserCaseCodingKeys(_, _, _)
UserCaseCodingKeys(t, i, r) ==
  IF i > Len(t.cases) THEN {<<>>}
  ELSE UserCaseCodingKeys(t, i + 1, r)
       \cup (IF r < 1 THEN {}
             ELSE UNION {{<<KeyDecl(caseCodingKeysIdentifier(t.cases[i].name),
                                    "enum", FALSE, TRUE, FALSE, l)>> \o rest :
                            rest \in UserCaseCodingKeys(t, i + 1,
                                                        r - caseKeysWeight(l))} :
                           l \in KeyLists(CaseKeyNames(t.cases[i]), r)})

UserDecls(t) ==
  {top \o rest : top \in UserCodingKeys(t, MaxSize - Weight(t)),
                 rest \in UserCaseCodingKeys(t, 1, MaxSize - Weight(t))}

(***************************************************************************)
(* State machine.                                                          *)
(***************************************************************************)
\* what a build does at the undefined dyn_cast of a null pointer
UBOutcomes == {"assertion failure", "segmentation fault"}

\* no canDerive call has been made
NotAsked == [asked |-> FALSE]

Init ==
  /\ ty \in Types
  /\ members \in {m \in UserDecls(ty) :
                    Weight(ty) + declsWeight(m) <= MaxSize}
  /\ decls = <<>>
  /\ diags = <<>>
  /\ derived = [p \in Protocols |-> "none"]
  /\ usedKeys = [p \in Protocols |-> 0]
  /\ encodeBody = <<>>
  /\ initBody = <<>>
  /\ crashed = "no"
  /\ inFlight = [p \in Protocols |-> <<>>]
  /\ probe = NotAsked

failureDiags(ok) ==
  IF ok THEN <<>>
  ELSE <<Diag("type_does_not_conform", NoIdentifier, 0),
         Diag("no_witnesses", NoIdentifier, 0)>>

\* deriveEncodable / deriveDecodable up to the declaration they add
derive(proto, declName) ==
  /\ crashed = "no"
  /\ derived[proto] = "none"
  /\ \E r \in {canSynthesize(ty, members, proto)} :
       /\ members' = r.members
       /\ usedKeys' = [usedKeys EXCEPT ![proto] = r.used]
       /\ IF r.ub
          THEN /\ crashed' \in UBOutcomes
               /\ diags' = diags \o TagDiags(proto, r.diags)
               /\ derived' = [derived EXCEPT ![proto] = "crashed"]
               /\ decls' = decls
          ELSE /\ crashed' = crashed
               /\ diags' = diags \o TagDiags(proto,
                                     r.diags \o failureDiags(r.ok))
               /\ derived' = [derived EXCEPT
                                ![proto] = IF r.ok THEN "ok" ELSE "failed"]
               /\ decls' = IF r.ok THEN Append(decls, declName) ELSE decls
  /\ UNCHANGED <<ty, encodeBody, initBody, inFlight, probe>>

DeriveEncodable ==
  /\ ty.conformsEncodable
  /\ derive(Encodable, "encode")

DeriveDecodable == derive(Decodable, "init")

hasDecl(name) == \E i \in DOMAIN decls : decls[i] = name

\* what the body synthesizers dereference is there
bodyResolves ==
  /\ lookupEvaluatedCodingKeysEnum(members, Id_CodingKeys) # <<>>
  /\ IF ty.kind = "enum"
     THEN caseCodingKeysResolve(ty, members)
     ELSE keysResolve(lookupEvaluatedCodingKeysEnum(members,
                                                    Id_CodingKeys)[1], ty)

\* the body synthesizer of encode(to:), run lazily on the added declaration
SynthesizeEncodeBody ==
  /\ crashed = "no"
  /\ hasDecl("encode")
  /\ encodeBody = <<>>
  /\ IF bodyResolves
     THEN /\ encodeBody' =
               <<IF ty.kind = "enum"
                 THEN deriveBodyEncodable_enum_encode(ty, members)
                 ELSE deriveBodyEncodable_encode(ty, members)>>
          /\ crashed' = crashed
     ELSE /\ encodeBody' = encodeBody
          /\ crashed' = "unreachable"
  /\ UNCHANGED <<ty, members, decls, diags, derived, usedKeys, initBody,
                 inFlight, probe>>

\* the body synthesizer of init(from:)
SynthesizeInitBody ==
  /\ crashed = "no"
  /\ hasDecl("init")
  /\ initBody = <<>>
  /\ IF bodyResolves
        /\ (ty.kind = "enum" =>
              \A i \in DOMAIN ty.cases :
                 caseCodingKeysOf(ty.cases[i], members) # <<>> =>
                   defaultExprsExist(ty.cases[i],
                                     caseCodingKeysOf(ty.cases[i], members)[1]))
     THEN /\ initBody' =
               <<IF ty.kind = "enum"
                 THEN deriveBodyDecodable_enum_init(ty, members)
                 ELSE deriveBodyDecodable_init(ty, members)>>
          /\ diags' = diags \o
               (IF ty.kind = "enum" THEN <<>>
                ELSE TagDiags(Decodable,
                       deriveBodyDecodable_init_diags(ty, members)))
          /\ crashed' = crashed
     ELSE /\ initBody' = initBody
          /\ diags' = diags
          /\ crashed' = "unreachable"
  /\ UNCHANGED <<ty, members, decls, derived, usedKeys, encodeBody,
                 inFlight, probe>>

Next ==
  \/ DeriveEncodable
  \/ DeriveDecodable
  \/ SynthesizeEncodeBody
  \/ SynthesizeInitBody

Spec == Init /\ [][Next]_vars

(***************************************************************************)
(* The derivations as concurrent callers.  The code takes no lock: a       *)
(* caller's lookup of CodingKeys (validateCodingKeysEnum, lines 422-423)   *)
(* and its insertion of the synthesized enumeration                        *)
(* (target->addMember, lines 147 and 263) are separate steps, between      *)
(* which the other caller may run.                                         *)
(***************************************************************************)
requirementOf(proto) ==
  IF proto = Encodable THEN "encode" ELSE "init"

\* a caller enters the derivation, checks the superclass initializer and
\* looks CodingKeys up
BeginDerive(proto) ==
  /\ crashed = "no"
  /\ derived[proto] = "none"
  /\ inFlight[proto] = <<>>
  /\ proto = Encodable => ty.conformsEncodable
  /\ \E sup \in {checkSuperInit(ty, proto)} :
       IF sup.ok
       THEN /\ inFlight' = [inFlight EXCEPT
                              ![proto] = <<lookupIndices(members,
                                                         Id_CodingKeys)>>]
            /\ UNCHANGED <<diags, derived>>
       ELSE /\ diags' = diags \o TagDiags(proto,
                                  sup.diags \o failureDiags(FALSE))
            /\ derived' = [derived EXCEPT ![proto] = "failed"]
            /\ UNCHANGED inFlight
  /\ UNCHANGED <<ty, members, decls, usedKeys, encodeBody, initBody, crashed,
                 probe>>

\* the lookup of the caller found nothing, and CodingKeys has been added
\* since
lookupIsStale(proto) ==
  /\ inFlight[proto] = << <<>> >>
  /\ lookupIndices(members, Id_CodingKeys) # <<>>

\* the caller goes on with the result of its lookup: it synthesizes and
\* inserts CodingKeys if the lookup was empty, validates, and adds the
\* declaration.  In a build with assertions addImplicitCodingKeys stops at
\* assert(lookupDirect(CodingKeys).empty()) (line 218) when a struct or
\* class has got a CodingKeys in the meantime.
FinishDerive(proto) ==
  /\ crashed = "no"
  /\ derived[proto] = "none"
  /\ inFlight[proto] # <<>>
  /\ inFlight' = [inFlight EXCEPT ![proto] = <<>>]
  /\ \/ /\ lookupIsStale(proto)
        /\ ty.kind # "enum"
        /\ crashed' = "assertion failure"
        /\ derived' = [derived EXCEPT ![proto] = "crashed"]
        /\ UNCHANGED <<members, usedKeys, diags, decls>>
     \/ \E r \in {canSynthesizeFound(ty, members, proto,
                                      inFlight[proto][1])} :
          /\ members' = r.members
          /\ usedKeys' = [usedKeys EXCEPT ![proto] = r.used]
          /\ IF r.ub
             THEN /\ crashed' \in UBOutcomes
                  /\ diags' = diags \o TagDiags(proto, r.diags)
                  /\ derived' = [derived EXCEPT ![proto] = "crashed"]
                  /\ decls' = decls
             ELSE /\ crashed' = crashed
                  /\ diags' = diags \o TagDiags(proto,
                                        r.diags \o failureDiags(r.ok))
                  /\ derived' = [derived EXCEPT
                                   ![proto] = IF r.ok THEN "ok" ELSE "failed"]
                  /\ decls' = IF r.ok
                              THEN Append(decls, requirementOf(proto))
                              ELSE decls
  /\ UNCHANGED <<ty, encodeBody, initBody, probe>>

NextConcurrent ==
  \E proto \in Protocols : BeginDerive(proto) \/ FinishDerive(proto)

SpecConcurrent == Init /\ [][NextConcurrent]_vars

(***************************************************************************)
(* The feasibility probes canDeriveEncodable / canDeriveDecodable, asked   *)
(* at any time before, between and after the derivations, also for a       *)
(* nominal type that is a protocol.                                        *)
(***************************************************************************)
\* variant that answers from what is there to code
canDeriveCodable_nonEmpty(NTD, protocolExists) ==
  /\ NTD.kind \in {"struct", "class", "enum"}
  /\ NTD.props # <<>> \/ NTD.cases # <<>>
  /\ protocolExists

\* protocolExists: getProtocol(Kind) returned a declaration
canDeriveCodable(NTD, protocolExists) ==
  IF NTD.kind \notin {"struct", "class", "enum"} THEN FALSE
  ELSE IF ~protocolExists THEN FALSE
  ELSE TRUE

\* nominal types that are neither struct, class nor enum
ProtocolTypes ==
  {[kind |-> "protocol", props |-> <<>>, cases |-> <<>>, super |-> <<>>,
    conformsEncodable |-> e] : e \in BOOLEAN}

InitProbe ==
  /\ ty \in Types \cup ProtocolTypes
  /\ members \in {m \in UserDecls(ty) :
                    Weight(ty) + declsWeight(m) <= MaxSize}
  /\ decls = <<>>
  /\ diags = <<>>
  /\ derived = [p \in Protocols |-> "none"]
  /\ usedKeys = [p \in Protocols |-> 0]
  /\ encodeBody = <<>>
  /\ initBody = <<>>
  /\ crashed = "no"
  /\ inFlight = [p \in Protocols |-> <<>>]
  /\ probe = NotAsked

\* one call of canDeriveEncodable or canDeriveDecodable (proto), made once
\* at any point of the run
CanDerive(proto, protocolExists) ==
  /\ crashed = "no"
  /\ ~probe.asked
  /\ proto \in Protocols
  /\ probe' = [asked |-> TRUE, exists |-> protocolExists,
               result |-> canDeriveCodable(ty, protocolExists)]
  /\ UNCHANGED <<ty, members, decls, diags, derived, usedKeys, encodeBody,
                 initBody, crashed, inFlight>>

\* the derivations are asked for structs, classes and enums only
Derive ==
  /\ ty.kind \in {"struct", "class", "enum"}
  /\ DeriveEncodable \/ DeriveDecodable

NextProbe ==
  \/ Derive
  \/ \E proto \in Protocols, protocolExists \in BOOLEAN :
        CanDerive(proto, protocolExists)

SpecProbe == InitProbe /\ [][NextProbe]_vars

(***************************************************************************)
(* Properties.                                                             *)
(***************************************************************************)
bothSynthesized == encodeBody # <<>> /\ initBody # <<>>

\* field-wise equality on the user-accessible stored properties
fieldWiseEqual(targetDecl, v, w) ==
  /\ w.outcome = "value"
  /\ \A i \in DOMAIN targetDecl.props :
        targetDecl.props[i].accessible => w.value[i] = v[i]

roundTrips(v) ==
  IF ty.kind = "enum"
  THEN LET written == runEnumEncode(encodeBody[1], v) IN
       written.outcome = "written" =>
         runEnumInit(initBody[1], written.allKeys, written.container)
           = [outcome |-> "value", value |-> v]
  ELSE fieldWiseEqual(ty, v,
         runInit(initBody[1], ty, runEncode(encodeBody[1], ty, v)))

valuesOfType == IF ty.kind = "enum" THEN EnumValues(ty) ELSE StructValues(ty)

\* no key enumeration of the type is user-declared: every user-accessible
\* member has a key
keysAllSynthesized == \A i \in DOMAIN members : members[i].implicit

\* C1: whenever encode(to:) and init(from:) are both synthesized, running
\* the decode body on what the encode body wrote for a value yields a
\* field-wise equal value, for every value of the type, nil optionals
\* included (stated for the types whose key enumerations are synthesized)
C1_RoundTrip ==
  bothSynthesized /\ keysAllSynthesized =>
    \A v \in valuesOfType : roundTrips(v)

\* a stored property `var x: Int`
plainCodableVar(v) ==
  /\ ~v.optional /\ v.encodable /\ v.decodable /\ v.init = "none"
  /\ ~v.isLet /\ v.accessible /\ v.original = NoIdentifier

\* class D: B with one stored field x, B Encodable and Decodable, and no key
\* enumeration declared in D
chainingCase ==
  /\ ty.kind = "class" /\ ty.super # <<>>
  /\ Len(ty.props) = 1 /\ plainCodableVar(ty.props[1])
  /\ ty.conformsEncodable
  /\ ty.super[1].conforms = Protocols
  /\ ty.super[1].initFrom = OkInit
  /\ keysAllSynthesized

\* C2: for such a class both derivations succeed; init(from:) is exactly
\* container, decode x, super.init(from: superDecoder) and encode(to:) is
\* exactly container, encode x, super.encode(to: superEncoder)
C2_SuperclassChaining ==
  chainingCase =>
    /\ \A p \in Protocols : derived[p] \in {"none", "ok"}
    /\ encodeBody # <<>> =>
          encodeBody[1] =
            <<AcquireContainer,
              Stmt("encode", ty.props[1].name, ty.props[1].name, 0),
              Stmt("superEncode", NoIdentifier, NoIdentifier, 0)>>
    /\ initBody # <<>> =>
          initBody[1] =
            <<AcquireContainer,
              Stmt("decode", ty.props[1].name, ty.props[1].name, 0),
              Stmt("superInitFrom", NoIdentifier, NoIdentifier, 0)>>

\* the user's declarations named CodingKeys
userCodingKeys ==
  SelectSeq(members, LAMBDA d : d.name = Id_CodingKeys /\ ~d.implicit)

caseNamesOf(enumDecl) ==
  {enumDecl.cases[i].name : i \in DOMAIN enumDecl.cases}

\* a CodingKey-conforming enum declaration, not reached through an alias
isKeyEnum(d) == d.declKind = "enum" /\ d.conformsCodingKey /\ ~d.alias

\* the cases of the enum that the user's CodingKeys has no key for
omittedCases ==
  {i \in DOMAIN ty.cases :
     ~lookupEnumCase(userCodingKeys[1], ty.cases[i].name)}

\* an enum of payload-free, distinctly named cases whose only user-declared
\* key enumeration is a CodingKeys without extraneous keys that omits a case
omittedCaseCase ==
  /\ ty.kind = "enum"
  /\ IsInjective([i \in DOMAIN ty.cases |-> ty.cases[i].name])
  /\ \A i \in DOMAIN ty.cases : ty.cases[i].params = <<>>
  /\ Len(userCodingKeys) = 1
  /\ isKeyEnum(userCodingKeys[1])
  /\ \A i \in DOMAIN members :
        members[i].implicit \/ members[i].name = Id_CodingKeys
  /\ Range(userCodingKeys[1].cases) \subseteq caseNamesOf(ty)
  /\ omittedCases # {}

\* C3: for such an enum the derivations complete without error and without
\* diagnostics; the encode body has for each omitted case a branch that only
\* throws EncodingError.invalidValue, and the decode dispatch has no branch
\* for it
C3_OmittedCaseIsNoError ==
  omittedCaseCase =>
    /\ crashed = "no"
    /\ \A p \in Protocols : derived[p] \in {"none", "ok"}
    /\ diags = <<>>
    /\ encodeBody # <<>> =>
         \A i \in omittedCases :
            encodeBody[1][2].branches[i].stmts =
              <<Stmt("throwInvalidValue", NoIdentifier, NoIdentifier, 0)>>
    /\ initBody # <<>> /\ initBody[1] # <<>> =>
         \A i \in omittedCases :
            \A n \in DOMAIN initBody[1][3].branches :
               initBody[1][3].branches[n].element # i

\* the calls of a branch of the switch that code payload slot j
slotCalls(branch, j) ==
  SelectSeq(branch.stmts,
            LAMBDA st : st.slot = j /\ st.op \in {"encode", "encodeIfPresent",
                                                  "decode", "decodeIfPresent"})

\* payload slot j of case i is matched to a key of the case's enumeration
slotIsKeyed(i, j) ==
  /\ caseCodingKeysOf(ty.cases[i], members) # <<>>
  /\ lookupEnumCase(caseCodingKeysOf(ty.cases[i], members)[1],
                    paramIdentifier(ty.cases[i].params[j], j))

branchesOf(switch, i) == SelectSeq(switch.branches, LAMBDA b : b.element = i)

\* C4: in the synthesized enum bodies every keyed payload slot of optional
\* type is written with encodeIfPresent and read with decodeIfPresent, and
\* every keyed slot of non-optional type with encode and decode
C4_EnumOptionalPayload ==
  ty.kind = "enum" =>
    \A i \in DOMAIN ty.cases : \A j \in DOMAIN ty.cases[i].params :
       slotIsKeyed(i, j) =>
         /\ encodeBody # <<>> =>
              \A n \in DOMAIN branchesOf(encodeBody[1][2], i) :
                 LET calls == slotCalls(branchesOf(encodeBody[1][2], i)[n], j)
                 IN Len(calls) = 1
                    /\ calls[1].op = IF ty.cases[i].params[j].optional
                                     THEN "encodeIfPresent" ELSE "encode"
         /\ initBody # <<>> /\ initBody[1] # <<>> =>
              \A n \in DOMAIN branchesOf(initBody[1][3], i) :
                 LET calls == slotCalls(branchesOf(initBody[1][3], i)[n], j)
                 IN Len(calls) = 1
                    /\ calls[1].op = IF ty.cases[i].params[j].optional
                                     THEN "decodeIfPresent" ELSE "decode"

\* the key enumeration the bodies of a struct or class are synthesized from
bodyCodingKeys == lookupEvaluatedCodingKeysEnum(members, Id_CodingKeys)[1]

\* the calls of a body that code the key
keyCalls(body, key) ==
  SelectSeq(body, LAMBDA st : st.key = key /\ st.op \in {"encode",
                    "encodeIfPresent", "decode", "decodeIfPresent"})

matchedProperty(key) == lookupVarDeclForCodingKeysCase(key, ty)[1].var

encodesByType(key) ==
  encodeBody # <<>> =>
    /\ Len(keyCalls(encodeBody[1], key)) = 1
    /\ keyCalls(encodeBody[1], key)[1].op =
         IF matchedProperty(key).optional THEN "encodeIfPresent" ELSE "encode"

decodesByType(key) ==
  initBody # <<>> =>
    /\ Len(keyCalls(initBody[1], key)) = 1
    /\ keyCalls(initBody[1], key)[1].op =
         IF matchedProperty(key).optional THEN "decodeIfPresent" ELSE "decode"

\* a struct with one non-optional and one optional property, both
\* user-accessible, and no CodingKeys of the user's
twoPropertyStruct ==
  /\ ty.kind = "struct" /\ Len(ty.props) = 2
  /\ \A i \in 1..2 : ty.props[i].accessible
  /\ ty.props[1].optional # ty.props[2].optional
  /\ userCodingKeys = <<>>

getsTwoKeys ==
  twoPropertyStruct /\ (\E p \in Protocols : derived[p] # "none") =>
    Len(bodyCodingKeys.cases) = 2

structBodies == ty.kind # "enum" /\ (encodeBody # <<>> \/ initBody # <<>>)

\* C5 as stated: for every key of the key enumeration of a struct or class
\* the encode body emits encodeIfPresent and the decode body decodeIfPresent
\* exactly when the matched property is optional, and encode / decode
\* otherwise; a struct with one non-optional and one optional property gets
\* exactly two keys
C5_OptionalHandling_AsStated ==
  /\ structBodies =>
       \A k \in DOMAIN bodyCodingKeys.cases :
          /\ encodesByType(bodyCodingKeys.cases[k])
          /\ decodesByType(bodyCodingKeys.cases[k])
  /\ getsTwoKeys

\* C5: the same, except that the decode body emits no call at all for a key
\* whose property is a let with an initial value
C5_OptionalHandling ==
  /\ structBodies =>
       \A k \in DOMAIN bodyCodingKeys.cases :
          /\ encodesByType(bodyCodingKeys.cases[k])
          /\ IF skipsDecoding(matchedProperty(bodyCodingKeys.cases[k]))
             THEN initBody # <<>> =>
                    keyCalls(initBody[1], bodyCodingKeys.cases[k]) = <<>>
             ELSE decodesByType(bodyCodingKeys.cases[k])
  /\ getsTwoKeys

\* both bodies of a struct with an optional and a non-optional property are
\* synthesized from its two keys
C5_Witness ==
  /\ twoPropertyStruct /\ bothSynthesized
  /\ Len(bodyCodingKeys.cases) = 2
  /\ \E n \in DOMAIN encodeBody[1] : encodeBody[1][n].op = "encodeIfPresent"
  /\ \E n \in DOMAIN initBody[1] : initBody[1][n].op = "decodeIfPresent"
  /\ \E n \in DOMAIN initBody[1] : initBody[1][n].op = "decode"

\* the containers an enum's init(from:) is run on: the keys (of the key
\* enumeration) they expose, in order
exposedKeyLists == SeqsUpTo(Range(bodyCodingKeys.cases), MaxExposedKeys)

\* the error the guard throws
ExpectedOneError ==
  [outcome |-> Thrown, error |-> "DecodingError.typeMismatch",
   codingPath |-> "container.codingPath",
   debugDescription |-> ExpectedOneMessage]

enumInitBody == ty.kind = "enum" /\ initBody # <<>> /\ initBody[1] # <<>>

\* C6: in the init(from:) body of an enum with a non-empty key enumeration
\* the check of container.allKeys.count == 1 comes after the container is
\* acquired and before the dispatch; on a container exposing no key or
\* several keys the body throws DecodingError.typeMismatch with the message
\* "Invalid number of keys found, expected one." and the container's coding
\* path; on one exposing exactly one key it selects the branch of the case
\* of that name
C6_ExactlyOneKey ==
  enumInitBody =>
    /\ Len(initBody[1]) = 3
    /\ initBody[1][1].op = "container"
    /\ initBody[1][2].op = "guard"
    /\ initBody[1][3].op = "switch"
    /\ \A allKeys \in exposedKeyLists :
          IF Len(allKeys) # 1
          THEN runEnumInit(initBody[1], allKeys, {}) = ExpectedOneError
          ELSE /\ runEnumInit(initBody[1], allKeys,
                              {[key |-> allKeys[1], val |-> {}]})
                    # ExpectedOneError
               /\ Len(selectedBranches(initBody[1][3], allKeys)) = 1
               /\ ty.cases[selectedBranches(initBody[1][3],
                                            allKeys)[1].element].name
                    = allKeys[1]

\* the init(from:) body of an enum of two keyed cases, which is run on
\* containers exposing zero, one and two keys
C6_Witness ==
  /\ enumInitBody
  /\ Len(bodyCodingKeys.cases) = 2
  /\ Len(initBody[1][3].branches) = 2
  /\ \E allKeys \in exposedKeyLists : Len(allKeys) = 2

\* C7: every synthesized key enumeration attached to the type has pairwise
\* distinct case identifiers
C7_KeySpaceUniqueness ==
  \A i \in DOMAIN members :
     members[i].implicit => IsInjective(members[i].cases)

\* the names of the key enumerations of the type
keyEnumNames ==
  {Id_CodingKeys}
  \cup {caseCodingKeysIdentifier(ty.cases[i].name) : i \in DOMAIN ty.cases}

\* nothing is synthesized under a name that is already declared: a
\* synthesized enumeration is the only member of its name
synthesizedOnce ==
  \A i, j \in DOMAIN members :
     members[i].implicit /\ members[j].name = members[i].name => i = j

\* both derivations validated the very same CodingKeys member
usesSameEnum ==
  (usedKeys[Encodable] # 0 /\ usedKeys[Decodable] # 0)
    => usedKeys[Encodable] = usedKeys[Decodable]

\* a step leaves every existing member as it is and adds only synthesized
\* enumerations under names not yet declared
onlyAddsMissing ==
  /\ Len(members') >= Len(members)
  /\ \A i \in DOMAIN members : members'[i] = members[i]
  /\ \A i \in (DOMAIN members') \ (DOMAIN members) :
        /\ members'[i].implicit
        /\ members'[i].name \in keyEnumNames
        /\ lookupDirect(members, members'[i].name) = <<>>

\* C8: whatever derivations ran, in either order, a synthesized key
\* enumeration is the only member of its name (so the type has at most one
\* CodingKeys and one <Case>CodingKeys per case unless the user declared
\* several), the second derivation uses the enumeration the first one
\* used, and existing members are never replaced or modified
C8_MemoizedKeyEnumeration ==
  /\ [](synthesizedOnce /\ usesSameEnum)
  /\ [][onlyAddsMissing]_vars

\* both derivations ran on an enum whose key enumerations the first one
\* synthesized
C8_Witness ==
  /\ ty.kind = "enum"
  /\ \A p \in Protocols : derived[p] # "none"
  /\ usedKeys[Encodable] # 0 /\ usedKeys[Decodable] # 0
  /\ members[usedKeys[Encodable]].implicit
  /\ \E i \in DOMAIN members :
        members[i].implicit /\ members[i].name # Id_CodingKeys

\* the type has one user-declared CodingKeys, a key enumeration
hasUserKeyEnum == Len(userCodingKeys) = 1 /\ isKeyEnum(userCodingKeys[1])

storedPropertyNames ==
  {getVarNameForCoding(ty.props[i]) : i \in DOMAIN ty.props}

\* the positions of the keys of the user's CodingKeys with a name in none of
\* names (struct, class) or of no enum case (enum)
keysMatchingNone(names) ==
  {k \in DOMAIN userCodingKeys[1].cases :
     userCodingKeys[1].cases[k]
       \notin (IF ty.kind = "enum" THEN caseNamesOf(ty) ELSE names)}

extraneousDiags(proto) ==
  SelectSeq(diags, LAMBDA d : d.req = proto
              /\ d.kind = "codable_extraneous_codingkey_case_here")

addedDecl(proto) == hasDecl(IF proto = Encodable THEN "encode" ELSE "init")

\* one diagnostic for each of the keys at the positions ks, and no other
onePerKey(proto, ks) ==
  /\ Len(extraneousDiags(proto)) = Cardinality(ks)
  /\ \A k \in ks :
        \E n \in DOMAIN extraneousDiags(proto) :
           /\ extraneousDiags(proto)[n].at = k
           /\ extraneousDiags(proto)[n].subject = userCodingKeys[1].cases[k]

\* C9 as stated: when k >= 1 keys of the user's key enumeration match no
\* stored property (no enum case), a derivation fails, emits exactly k
\* extraneous-key diagnostics, one per such key, and adds no declaration
C9_ExtraneousKeys_AsStated ==
  hasUserKeyEnum /\ keysMatchingNone(storedPropertyNames) # {} =>
    \A p \in Protocols :
       derived[p] # "none" =>
         /\ derived[p] = "failed"
         /\ onePerKey(p, keysMatchingNone(storedPropertyNames))
         /\ ~addedDecl(p)

\* the derivation gets as far as validating the keys
reachesKeyValidation(proto) == checkSuperInit(ty, proto).ok

\* C9: when k >= 1 keys of the user's key enumeration match no stored
\* property (no enum case), a derivation fails and
\* adds no declaration; it emits exactly k extraneous-key diagnostics, one
\* per such key, unless it is the Decodable derivation of a class that the
\* superclass-initializer check rejects, which emits none
C9_ExtraneousKeys ==
  hasUserKeyEnum /\ keysMatchingNone(storedPropertyNames) # {} =>
    \A p \in Protocols :
       derived[p] # "none" =>
         /\ derived[p] = "failed"
         /\ ~addedDecl(p)
         /\ onePerKey(p, IF reachesKeyValidation(p)
                         THEN keysMatchingNone(storedPropertyNames)
                         ELSE {})

\* both derivations ran against a user's key enumeration with two
\* extraneous keys
C9_Witness ==
  /\ hasUserKeyEnum
  /\ Cardinality(keysMatchingNone(storedPropertyNames)) = 2
  /\ \A p \in Protocols : derived[p] = "failed" /\ reachesKeyValidation(p)

\* the stored property that key names (the properties have distinct names)
propertyForKey(key) ==
  CHOOSE i \in DOMAIN ty.props : getVarNameForCoding(ty.props[i]) = key

isKeyed(i) ==
  lookupEnumCase(userCodingKeys[1], getVarNameForCoding(ty.props[i]))

hasDefaultValue(varDecl) == varDecl.init \in {"default", "initial"}

\* the stored properties with a default value that the user's key
\* enumeration has no key for
skippedDefaulted ==
  {i \in DOMAIN ty.props :
     ty.props[i].accessible /\ hasDefaultValue(ty.props[i]) /\ ~isKeyed(i)}

\* a struct or class whose only key enumeration is the user's CodingKeys,
\* which has no key for some property with a default value, and in which
\* nothing else stands in the way of deriving proto: the keys name
\* properties that conform to proto, the other unkeyed properties have
\* default values too, and the superclass offers the initializer
defaultableSkipCase(proto) ==
  /\ ty.kind # "enum"
  /\ hasUserKeyEnum
  /\ \A i \in DOMAIN members :
        members[i].implicit \/ members[i].name = Id_CodingKeys
  /\ skippedDefaulted # {}
  /\ keysMatchingNone(storedPropertyNames) = {}
  /\ \A k \in DOMAIN userCodingKeys[1].cases :
        conformsToProtocol(ty.props[propertyForKey(userCodingKeys[1].cases[k])],
                           proto)
  /\ proto = Decodable =>
       /\ \A i \in DOMAIN ty.props :
             ty.props[i].accessible /\ ~isKeyed(i)
               => hasDefaultValue(ty.props[i])
       /\ checkSuperInit(ty, proto).ok

mentions(body, varDecl) ==
  \E n \in DOMAIN body :
     body[n].var = varDecl.name \/ body[n].key = getVarNameForCoding(varDecl)

\* C10: for such a type Decodable derivation succeeds and the init(from:)
\* body assigns to none of the skipped properties; Encodable derivation
\* succeeds whether or not their types are Encodable, and the encode body
\* has no encode call for them
C10_DefaultableSkip ==
  /\ defaultableSkipCase(Decodable) =>
       /\ derived[Decodable] \in {"none", "ok"}
       /\ initBody # <<>> =>
            \A i \in skippedDefaulted : ~mentions(initBody[1], ty.props[i])
  /\ defaultableSkipCase(Encodable) =>
       /\ derived[Encodable] \in {"none", "ok"}
       /\ encodeBody # <<>> =>
            \A i \in skippedDefaulted : ~mentions(encodeBody[1], ty.props[i])

\* both bodies are synthesized for a type that has, next to a keyed
\* property, an unkeyed one with a default value whose type is not Encodable
C10_Witness ==
  /\ defaultableSkipCase(Decodable) /\ defaultableSkipCase(Encodable)
  /\ bothSynthesized
  /\ userCodingKeys[1].cases # <<>>
  /\ \E i \in skippedDefaulted : ~ty.props[i].encodable

\* the user-accessible stored properties that the user's key enumeration has
\* no key for and that have no default value
unkeyedNonDefaultable ==
  {i \in DOMAIN ty.props :
     ty.props[i].accessible /\ ~hasDefaultValue(ty.props[i]) /\ ~isKeyed(i)}

\* a struct or class whose only key enumeration is the user's CodingKeys, in
\* which a property without default value has no key and nothing else stands
\* in the way of deriving Decodable: every key names a Decodable property
\* and the superclass offers the initializer
absentKeyCase ==
  /\ ty.kind # "enum"
  /\ hasUserKeyEnum
  /\ \A i \in DOMAIN members :
        members[i].implicit \/ members[i].name = Id_CodingKeys
  /\ keysMatchingNone(storedPropertyNames) = {}
  /\ \A k \in DOMAIN userCodingKeys[1].cases :
        ty.props[propertyForKey(userCodingKeys[1].cases[k])].decodable
  /\ checkSuperInit(ty, Decodable).ok
  /\ unkeyedNonDefaultable # {}

nonDecodedDiagsOf(proto) ==
  SelectSeq(diags, LAMBDA d : d.req = proto
              /\ d.kind = "codable_non_decoded_property_here")

\* C11: for such a type that also conforms to Encodable, Decodable
\* derivation does not fail on the property without key: it succeeds and
\* adds init(from:)
C11_AbsentKeyIsWarning ==
  absentKeyCase /\ ty.conformsEncodable /\ derived[Decodable] # "none" =>
    derived[Decodable] = "ok" /\ addedDecl(Decodable)

diagsOf(proto, kind) ==
  SelectSeq(diags, LAMBDA d : d.req = proto /\ d.kind = kind)

\* the positions of the keys of the user's CodingKeys that name a stored
\* property whose type does not conform to proto
keysOfNonConforming(proto) ==
  {k \in (DOMAIN userCodingKeys[1].cases)
           \ keysMatchingNone(storedPropertyNames) :
     ~conformsToProtocol(
        ty.props[propertyForKey(userCodingKeys[1].cases[k])], proto)}

\* C12: one validation of the user's key enumeration against the stored
\* properties reports every problem: an extraneous-key diagnostic for every
\* key without property, a non-conforming-property diagnostic for every
\* keyed property whose type does not conform, and for Decodable a
\* non-decoded-property diagnostic for every property without key and
\* without default value, also when problems of several kinds occur together
C12_CompleteDiagnostics ==
  ty.kind # "enum" /\ hasUserKeyEnum =>
    \A p \in Protocols :
       derived[p] # "none" /\ reachesKeyValidation(p) =>
         /\ onePerKey(p, keysMatchingNone(storedPropertyNames))
         /\ \A k \in keysOfNonConforming(p) :
               \E n \in DOMAIN diagsOf(p, "codable_non_conforming_property_here") :
                  diagsOf(p, "codable_non_conforming_property_here")[n].at
                    = propertyForKey(userCodingKeys[1].cases[k])
         /\ p = Decodable =>
              \A i \in unkeyedNonDefaultable :
                 \E n \in DOMAIN diagsOf(p, "codable_non_decoded_property_here") :
                    diagsOf(p, "codable_non_decoded_property_here")[n].at = i

hasSuperclass == ty.kind = "class" /\ ty.super # <<>>

\* the initializer init(from:) of the class has to call: init(from:) of a
\* Decodable superclass, init() of any other
neededSuperInit ==
  IF Decodable \in ty.super[1].conforms
  THEN ty.super[1].initFrom
  ELSE ty.super[1].initPlain

superInitUnusable ==
  /\ hasSuperclass
  /\ \/ neededSuperInit.count # 1
     \/ ~neededSuperInit.designated
     \/ ~neededSuperInit.accessible
     \/ neededSuperInit.failable

SuperInitDiagKinds ==
  {"decodable_no_super_init_here", "decodable_super_init_not_designated_here",
   "decodable_inaccessible_super_init_here",
   "decodable_super_init_is_failable_here"}

superInitDiags(proto) ==
  SelectSeq(diags, LAMBDA d : d.req = proto /\ d.kind \in SuperInitDiagKinds)

\* the same type over a superclass all of whose initializers are usable
withUsableSuperInits(t) ==
  IF t.super = <<>> THEN t
  ELSE [t EXCEPT !.super = <<[t.super[1] EXCEPT !.initFrom = OkInit,
                                               !.initPlain = OkInit]>>]

superInitChecked ==
  /\ derived[Decodable] # "none" /\ superInitUnusable =>
       /\ derived[Decodable] = "failed"
       /\ ~addedDecl(Decodable)
       /\ Len(superInitDiags(Decodable)) =
            IF neededSuperInit.count > 1 THEN 0 ELSE 1
  /\ derived[Decodable] # "none" /\ ~superInitUnusable =>
       superInitDiags(Decodable) = <<>>
  /\ superInitDiags(Encodable) = <<>>

\* a step of Encodable derivation ends as it would over a superclass with
\* usable initializers
encodableIgnoresSuperInit ==
  derived'[Encodable] # derived[Encodable] =>
    (derived'[Encodable] = "ok")
      = canSynthesize(withUsableSuperInits(ty), members, Encodable).ok

\* C13: Decodable derivation of a class with a superclass fails when the
\* lookup of the needed initializer (init(from:) of a Decodable superclass,
\* init() otherwise) yields none, several, or one that is not designated,
\* not accessible or failable; Encodable derivation, and derivation for
\* types without superclass, does no initializer check
C13_SuperclassChain ==
  /\ []superInitChecked
  /\ [][encodableIgnoresSuperInit]_vars

\* both derivations ran on a class whose superclass lacks a usable init():
\* Decodable failed, Encodable succeeded
C13_Witness ==
  /\ superInitUnusable
  /\ Decodable \notin ty.super[1].conforms
  /\ derived[Decodable] = "failed"
  /\ derived[Encodable] = "ok"

\* the diagnostics a derivation emits when the initializer check fails
AbortDiagKinds ==
  SuperInitDiagKinds \cup {"type_does_not_conform", "no_witnesses"}

noKeyOrMemberDiags ==
  derived[Decodable] # "none" /\ superInitUnusable =>
    \A n \in DOMAIN diags :
       diags[n].req = Decodable => diags[n].kind \in AbortDiagKinds

\* the step of a Decodable derivation that fails the initializer check
\* leaves the members of the type as they are and validates no enumeration
leavesMembersAlone ==
  derived'[Decodable] # derived[Decodable] /\ superInitUnusable =>
    members' = members /\ usedKeys'[Decodable] = 0

\* C14: when the superclass-initializer check of Decodable derivation fails,
\* no key enumeration is looked up, synthesized or validated: the derivation
\* adds no CodingKeys to the class and emits no key-level or member-level
\* diagnostic
C14_AbortsBeforeKeys ==
  /\ []noKeyOrMemberDiags
  /\ [][leavesMembersAlone]_vars

\* Decodable derivation failed the initializer check on a class with stored
\* properties and no key enumeration, and none was added
C14_Witness ==
  /\ superInitUnusable
  /\ ty.props # <<>>
  /\ derived[Decodable] = "failed" /\ derived[Encodable] = "none"
  /\ members = <<>>

\* the user's CodingKeys cannot serve as key type: it is ambiguous, not an
\* enumeration, does not conform to CodingKey, or has a key that names no
\* member
keyTypeInvalid ==
  \/ Len(userCodingKeys) > 1
  \/ /\ Len(userCodingKeys) = 1
     /\ \/ userCodingKeys[1].declKind # "enum"
        \/ ~userCodingKeys[1].conformsCodingKey
        \/ keysMatchingNone(storedPropertyNames) # {}

\* C15 as stated: when the key enumeration is invalid as a key type or the
\* initializer check of the class fails, neither derivation adds a
\* declaration
C15_SharedPrerequisites_AsStated ==
  keyTypeInvalid \/ superInitUnusable =>
    \A p \in Protocols : ~addedDecl(p) /\ derived[p] \in {"none", "failed"}

\* C15: when the key enumeration is invalid as a key type, neither
\* derivation adds a declaration; when the initializer check of the class
\* fails, Decodable derivation adds none
C15_SharedPrerequisites ==
  /\ keyTypeInvalid =>
       \A p \in Protocols : ~addedDecl(p) /\ derived[p] \in {"none", "failed"}
  /\ superInitUnusable =>
       ~addedDecl(Decodable) /\ derived[Decodable] \in {"none", "failed"}

\* both derivations failed on a type whose CodingKeys is a struct
C15_Witness ==
  /\ Len(userCodingKeys) = 1
  /\ userCodingKeys[1].declKind = "struct"
  /\ userCodingKeys[1].conformsCodingKey
  /\ \A p \in Protocols : derived[p] = "failed"
  /\ decls = <<>>

\* in the absent-key case, the keyed properties are Encodable as well
absentKeyOnly ==
  /\ absentKeyCase
  /\ \A k \in DOMAIN userCodingKeys[1].cases :
        ty.props[propertyForKey(userCodingKeys[1].cases[k])].encodable

\* C16: for a type whose user-declared key enumeration leaves a property
\* without default value without a key (and has no other problem),
\* Decodable derivation fails with a non-decoded-property diagnostic for
\* each such property, while Encodable derivation succeeds without
\* diagnostics, in whichever order the two run
C16_RequirementIndependence ==
  absentKeyOnly =>
    /\ derived[Decodable] # "none" =>
         /\ derived[Decodable] = "failed"
         /\ ~addedDecl(Decodable)
         /\ \A i \in unkeyedNonDefaultable :
               \E n \in DOMAIN nonDecodedDiagsOf(Decodable) :
                  nonDecodedDiagsOf(Decodable)[n].at = i
    /\ derived[Encodable] # "none" =>
         /\ derived[Encodable] = "ok"
         /\ addedDecl(Encodable)
         /\ \A n \in DOMAIN diags : diags[n].req # Encodable

\* Decodable derivation failed first, and Encodable derivation of the same
\* type then succeeded
C16_Witness ==
  /\ absentKeyOnly
  /\ derived[Decodable] = "failed" /\ derived[Encodable] = "ok"
  /\ decls = <<"encode">>
  /\ diags # <<>> /\ \A n \in DOMAIN diags : diags[n].req = Decodable

declNameOf(proto) == IF proto = Encodable THEN "encode" ELSE "init"

declCount(proto) ==
  Cardinality({n \in DOMAIN decls : decls[n] = declNameOf(proto)})

\* C17: a derivation that was started has finished in one of two ways:
\* it added its one declaration (encode(to:), init(from:)) and reported no
\* failure, or it added no declaration and emitted the
\* type-does-not-conform diagnostic
C17_AllOrNothing ==
  \A p \in Protocols :
     derived[p] # "none" =>
       \/ /\ derived[p] = "ok"
          /\ declCount(p) = 1
          /\ diagsOf(p, "type_does_not_conform") = <<>>
       \/ /\ derived[p] = "failed"
          /\ declCount(p) = 0
          /\ diagsOf(p, "type_does_not_conform") # <<>>

\* the synthesized CodingKeys enumerations of the type
implicitCodingKeys ==
  SelectSeq(members, LAMBDA d : d.name = Id_CodingKeys /\ d.implicit)

\* the superclass of the class conforms to Encodable or to Decodable
superclassCodes == hasSuperclass /\ ty.super[1].conforms # {}

accessibleProps == {i \in DOMAIN ty.props : ty.props[i].accessible}

\* the name a stored property is coded under: the wrapped property's name
\* for the backing storage of a property wrapper
codingNameOf(i) ==
  IF ty.props[i].original # NoIdentifier
  THEN ty.props[i].original
  ELSE ty.props[i].name

\* the position of the key of user-accessible property i
keyPosition(i) ==
  (IF superclassCodes THEN 1 ELSE 0)
  + Cardinality({j \in accessibleProps : j <= i})

\* C18: the synthesized CodingKeys of a struct or class has the key super
\* as its first case exactly when the type is a class whose superclass
\* conforms to Encodable or Decodable, then one case per user-accessible
\* stored property in declaration order, named by the property's coding
\* name, and no other case
C18_SynthesizedKeyOrder ==
  ty.kind # "enum" =>
    \A m \in DOMAIN implicitCodingKeys :
       LET keys == implicitCodingKeys[m].cases IN
       /\ Len(keys) = (IF superclassCodes THEN 1 ELSE 0)
                      + Cardinality(accessibleProps)
       /\ superclassCodes => keys[1] = Id_super
       /\ \A i \in accessibleProps : keys[keyPosition(i)] = codingNameOf(i)
       /\ ~superclassCodes => \A k \in DOMAIN keys : keys[k] # Id_super

\* the synthesized CodingKeys of a class over a coding superclass, with the
\* backing storage of a wrapped property and a property user code cannot
\* name
C18_Witness ==
  /\ implicitCodingKeys # <<>>
  /\ superclassCodes
  /\ Len(ty.props) = 2
  /\ \E i \in DOMAIN ty.props : ty.props[i].original # NoIdentifier
  /\ \E i \in DOMAIN ty.props : ~ty.props[i].accessible

\* the cases that repeat the base name of an earlier case
repeatedCases ==
  {i \in DOMAIN ty.cases :
     \E j \in 1..(i - 1) : ty.cases[j].name = ty.cases[i].name}

\* the key name of payload slot j of case i: its label, or _<index> counted
\* from 0 for an unlabelled slot
slotKeyName(i, j) ==
  IF ty.cases[i].params[j].name # NoIdentifier
  THEN ty.cases[i].params[j].name
  ELSE GeneratedName(j - 1)

\* the payload slots <<case, slot>> that repeat the key name of an earlier
\* slot of their case
repeatedSlots ==
  {cs \in UNION {{<<i, j>> : j \in DOMAIN ty.cases[i].params} :
                   i \in DOMAIN ty.cases} :
     \E k \in 1..(cs[2] - 1) : slotKeyName(cs[1], k) = slotKeyName(cs[1], cs[2])}

\* the diagnostic names the label of the parameter it is attached to
onLabelledParameter(d) ==
  \E i \in DOMAIN ty.cases :
     /\ d.at \in DOMAIN ty.cases[i].params
     /\ ty.cases[i].params[d.at].name = d.subject

\* C19: for an enum in which two cases share a base name or two payload
\* slots of a case share a key name, a derivation fails, adds no
\* declaration and emits one duplicate diagnostic per repeated case and per
\* repeated slot, each duplicate-parameter diagnostic on a labelled
\* parameter
C19_DuplicateNames ==
  ty.kind = "enum" /\ (repeatedCases # {} \/ repeatedSlots # {}) =>
    \A p \in Protocols :
       derived[p] # "none" =>
         /\ derived[p] = "failed"
         /\ ~addedDecl(p)
         /\ Len(diagsOf(p, "codable_enum_duplicate_case_name_here"))
              = Cardinality(repeatedCases)
         /\ \A i \in repeatedCases :
               \E n \in DOMAIN diagsOf(p, "codable_enum_duplicate_case_name_here") :
                  diagsOf(p, "codable_enum_duplicate_case_name_here")[n].at = i
         /\ Len(diagsOf(p, "codable_enum_duplicate_parameter_name_here"))
              = Cardinality(repeatedSlots)
         /\ \A n \in DOMAIN diagsOf(p, "codable_enum_duplicate_parameter_name_here") :
               onLabelledParameter(
                 diagsOf(p, "codable_enum_duplicate_parameter_name_here")[n])

\* the members of the type named CodingKeys
codingKeysMembers == lookupIndices(members, Id_CodingKeys)

\* C20: when the derivations run as concurrent callers whose steps
\* interleave, CodingKeys is synthesized and inserted at most once: a
\* synthesized CodingKeys is the only member of that name
C20_PopulateOnce ==
  \A n \in DOMAIN codingKeysMembers :
     members[codingKeysMembers[n]].implicit => Len(codingKeysMembers) = 1

\* the answer of the last probe is TRUE exactly for a struct, class or
\* enum whose protocol declaration exists
probeAnswer ==
  probe.asked =>
    probe.result = (ty.kind \in {"struct", "class", "enum"} /\ probe.exists)

\* a probe emits no diagnostic and adds no member and no declaration
probeIsPure ==
  probe' # probe =>
    members' = members /\ diags' = diags /\ decls' = decls
    /\ derived' = derived

\* C21: canDeriveEncodable / canDeriveDecodable answer TRUE exactly when
\* the type is a struct, class or enum and the protocol declaration exists,
\* and a call of them emits no diagnostic and adds no member to the type,
\* whatever members and key enumerations the type has
C21_PureProbe ==
  /\ []probeAnswer
  /\ [][probeIsPure]_vars

\* the probe answered TRUE on a type after a derivation that failed on its
\* key enumeration with diagnostics
C21_Witness ==
  /\ probe.asked /\ probe.result
  /\ \E p \in Protocols : derived[p] = "failed"
  /\ members # <<>> /\ diags # <<>>

\* statements of an init(from:) body that use the keyed decoding container
usesContainer(stmt) ==
  stmt.op \in {"decode", "decodeIfPresent", "superInitFrom"}

\* statement n of the body comes after the acquisition of the container
containerAcquiredBefore(body, n) ==
  \E m \in 1..(n - 1) : body[m] = AcquireContainer

\* C23: in every synthesized init(from:) body of a struct or class, each
\* statement that uses the keyed decoding container (a member decode call
\* or super.init(from: container.superDecoder())) is preceded by the
\* statement that acquires the container, also for a class over a Decodable
\* superclass whose key enumeration has zero cases
C23_ContainerBeforeUse ==
  (ty.kind \in {"struct", "class"} /\ initBody # <<>>) =>
    \A n \in DOMAIN initBody[1] :
       usesContainer(initBody[1][n]) =>
         containerAcquiredBefore(initBody[1], n)

\* a requirement of a struct or class passed canSynthesize: its declaration
\* was added, so its body synthesizer can run or has run
structuralBodyDue ==
  /\ ty.kind \in {"struct", "class"}
  /\ hasDecl("encode") \/ hasDecl("init")

\* the statements of the synthesized bodies that name a key
keyedStmts(body) ==
  SelectSeq(body, LAMBDA stmt : stmt.key # NoIdentifier)

\* every keyed statement of the body works on a stored property of the type
stmtsOnStoredProperties(body) ==
  \A n \in DOMAIN keyedStmts(body) :
     \E i \in DOMAIN ty.props :
        /\ ty.props[i].name = keyedStmts(body)[n].var
        /\ getVarNameForCoding(ty.props[i]) = keyedStmts(body)[n].key

\* C24: whenever an encode or init(from:) body is synthesized for a struct
\* or class, i.e. after canSynthesize succeeded for that requirement, every
\* case of the key enumeration resolves to a stored property of the type,
\* and llvm_unreachable in lookupVarDeclForCodingKeysCase is never reached
C24_KeysResolveAfterValidation ==
  structuralBodyDue =>
    /\ crashed # "unreachable"
    /\ lookupEvaluatedCodingKeysEnum(members, Id_CodingKeys) # <<>>
    /\ keysResolve(lookupEvaluatedCodingKeysEnum(members, Id_CodingKeys)[1],
                   ty)
    /\ encodeBody # <<>> => stmtsOnStoredProperties(encodeBody[1])
    /\ initBody # <<>> => stmtsOnStoredProperties(initBody[1])

\* both bodies of a struct or class were synthesized over a user-declared
\* key enumeration that names a wrapped property
C24_Witness ==
  /\ ty.kind \in {"struct", "class"}
  /\ encodeBody # <<>> /\ initBody # <<>>
  /\ \E n \in DOMAIN encodeBody[1] :
        /\ encodeBody[1][n].key # NoIdentifier
        /\ encodeBody[1][n].var # encodeBody[1][n].key
  /\ \E n \in DOMAIN members :
        members[n].name = Id_CodingKeys /\ ~members[n].implicit

\* the branches of the switch of a synthesized enum body
switchBranches(body) ==
  IF \E n \in DOMAIN body : body[n].op = "switch"
  THEN body[CHOOSE n \in DOMAIN body : body[n].op = "switch"].branches
  ELSE <<>>

\* payload slot i of the enum case has no key in the case's key enumeration
slotUnmatched(elt, i) ==
  ~lookupEnumCase(caseCodingKeysOf(elt, members)[1],
                  paramIdentifier(elt.params[i], i))

\* the statements of a branch that work on payload slots, in body order
slotStmts(branch) ==
  SelectSeq(branch.stmts, LAMBDA stmt : stmt.slot # 0 /\ stmt.op # "assignSelf")

\* the encode branch of a keyed case has one call per matched slot, in
\* declaration order, and none for an unmatched slot
encodeBranchSkipsUnmatched(branch) ==
  LET elt == ty.cases[branch.element]
      matched == SelectSeq([i \in DOMAIN elt.params |-> i],
                   LAMBDA i : ~slotUnmatched(elt, i))
  IN /\ Len(slotStmts(branch)) = Len(matched)
     /\ \A j \in DOMAIN matched :
           /\ slotStmts(branch)[j].slot = matched[j]
           /\ slotStmts(branch)[j].op \in {"encode", "encodeIfPresent"}

\* the decode branch has one argument per slot at the slot's position: the
\* declared default expression for an unmatched slot, a decode call for a
\* matched one
decodeBranchFillsDefaults(branch) ==
  LET elt == ty.cases[branch.element] IN
  /\ Len(slotStmts(branch)) = Len(elt.params)
  /\ \A i \in DOMAIN elt.params :
        /\ slotStmts(branch)[i].slot = i
        /\ IF slotUnmatched(elt, i)
           THEN /\ slotStmts(branch)[i].op = "defaultExpr"
                /\ elt.params[i].init = "defaultExpr"
           ELSE slotStmts(branch)[i].op = "decode"

\* the cases of the enum that have a top-level key
keyedCases ==
  {i \in DOMAIN ty.cases :
     lookupEnumCase(lookupEvaluatedCodingKeysEnum(members, Id_CodingKeys)[1],
                    ty.cases[i].name)}

\* C25: for an enum case matched to a top-level key, a payload slot with no
\* key in the case's key enumeration gets no encode call in the encode
\* branch and its declared default expression, at its argument position, in
\* the decode branch; after successful Decodable validation every such slot
\* has a default expression (assert(paramDecl->hasDefaultExpr()) holds), and
\* matched slots are decoded in declaration order
C25_UnmatchedPayloadSlots ==
  ty.kind = "enum" =>
    /\ encodeBody # <<>> =>
         \A b \in DOMAIN switchBranches(encodeBody[1]) :
            switchBranches(encodeBody[1])[b].element \in keyedCases =>
              encodeBranchSkipsUnmatched(switchBranches(encodeBody[1])[b])
    /\ initBody # <<>> =>
         \A b \in DOMAIN switchBranches(initBody[1]) :
            decodeBranchFillsDefaults(switchBranches(initBody[1])[b])
    /\ (hasDecl("init") /\ bodyResolves) =>
         \A i \in keyedCases :
            defaultExprsExist(ty.cases[i],
                              caseCodingKeysOf(ty.cases[i], members)[1])

\* both bodies of an enum were synthesized and a keyed case has a payload
\* slot without key next to a slot with key
C25_Witness ==
  /\ ty.kind = "enum"
  /\ encodeBody # <<>> /\ initBody # <<>>
  /\ \E b \in DOMAIN switchBranches(initBody[1]) :
        \E m, n \in DOMAIN switchBranches(initBody[1])[b].stmts :
           /\ switchBranches(initBody[1])[b].stmts[m].op = "defaultExpr"
           /\ switchBranches(initBody[1])[b].stmts[n].op = "decode"

\* the assignments to self in the statements of a dispatch branch
selfAssignments(branch) ==
  SelectSeq(branch.stmts, LAMBDA stmt : stmt.op = "assignSelf")

\* the branch assigns self once, as its last statement, with the case of
\* the enum that its key names
endsWithAssignment(branch) ==
  /\ Len(selfAssignments(branch)) = 1
  /\ branch.stmts[Len(branch.stmts)].op = "assignSelf"
  /\ branch.stmts[Len(branch.stmts)].var = branch.key
  /\ ty.cases[branch.element].name = branch.key

\* C26: every path through a synthesized enum init(from:) body that does not
\* throw assigns self exactly once: each case of the key enumeration has
\* exactly one dispatch branch, each branch ends with the assignment of the
\* constructed case to self, and no body returns without assigning self,
\* also when the key enumeration has zero cases
C26_SelfAssignedOnce ==
  (ty.kind = "enum" /\ initBody # <<>>) =>
    /\ switchBranches(initBody[1]) # <<>>
    /\ \A k \in Range(bodyCodingKeys.cases) :
          Cardinality({b \in DOMAIN switchBranches(initBody[1]) :
                         switchBranches(initBody[1])[b].key = k}) = 1
    /\ \A b \in DOMAIN switchBranches(initBody[1]) :
          endsWithAssignment(switchBranches(initBody[1])[b])

\* the step is a derivation of proto that returns after canSynthesize failed
failedStep(proto) ==
  derived[proto] = "none" /\ derived'[proto] = "failed"

\* as stated: the failed derivation leaves the member list as it was
C27_FailureRestoresMembers_AsStated ==
  [][\A p \in Protocols : failedStep(p) => members' = members]_vars

\* the failed derivation that got as far as the keys of a type without
\* CodingKeys leaves the CodingKeys it synthesized attached to the type
synthesizedStaysAttached(proto) ==
  (reachesKeyValidation(proto) /\ lookupDirect(members, Id_CodingKeys) = <<>>)
    => \E i \in (DOMAIN members') \ (DOMAIN members) :
          members'[i].name = Id_CodingKeys /\ members'[i].implicit

\* C27 (amended): a derivation that fails validation removes and changes
\* none of the members the type had before and adds no procedure
\* declaration; the only members it adds are implicitly synthesized key
\* enumerations (CodingKeys, per-case), and these stay attached to the type
\* after the failed derivation
C27_FailureKeepsKeyEnums ==
  [][\A p \in Protocols :
       failedStep(p) =>
         /\ onlyAddsMissing
         /\ decls' = decls
         /\ synthesizedStaysAttached(p)]_vars

\* the only derivation that ran has failed, and the CodingKeys it
\* synthesized is a member of the type
C27_Witness ==
  /\ \E p \in Protocols :
        /\ derived[p] = "failed"
        /\ \A q \in Protocols \ {p} : derived[q] = "none"
  /\ \E i \in DOMAIN members :
        members[i].name = Id_CodingKeys /\ members[i].implicit

\* a let with an initial value
immutableWithInitialValue(varDecl) ==
  varDecl.isLet /\ varDecl.init = "initial"

\* the keys of the key enumeration whose property init(from:) has to assign
assignedKeys ==
  SelectSeq(bodyCodingKeys.cases,
            LAMBDA k : ~immutableWithInitialValue(matchedProperty(k)))

\* the assignments of decoded values in a body, in body order
decodeAssignments(body) == SelectSeq(body, isDecodeCall)

\* the members with the CodingKeys enumeration taken as synthesized
\* (implicit) or as user-declared
withKeysDeclared(ms, implicit) ==
  [i \in DOMAIN ms |->
     IF ms[i].name = Id_CodingKeys THEN [ms[i] EXCEPT !.implicit = implicit]
     ELSE ms[i]]

\* C28: in the synthesized init(from:) body of a struct or class a keyed let
\* with an initial value is never assigned and every other keyed property is
\* assigned exactly once, in key-enumeration order; the statements are the
\* same whether the key enumeration is implicit or user-declared and whether
\* or not the type conforms to Encodable, and synthesis succeeds
C28_ImmutableWithInitialValue ==
  (ty.kind \in {"struct", "class"} /\ initBody # <<>>) =>
    /\ Len(decodeAssignments(initBody[1])) = Len(assignedKeys)
    /\ \A n \in DOMAIN assignedKeys :
          /\ decodeAssignments(initBody[1])[n].key = assignedKeys[n]
          /\ decodeAssignments(initBody[1])[n].var =
               matchedProperty(assignedKeys[n]).name
    /\ \A implicit, encodable \in BOOLEAN :
          deriveBodyDecodable_init(
            [ty EXCEPT !.conformsEncodable = encodable],
            withKeysDeclared(members, implicit)) = initBody[1]
    /\ derived[Decodable] = "ok" /\ crashed = "no"

\* an init(from:) body was synthesized over a key enumeration that names a
\* let with an initial value, with the warning, and another property
C28_Witness ==
  /\ ty.kind \in {"struct", "class"} /\ initBody # <<>>
  /\ Len(assignedKeys) >= 1
  /\ Len(assignedKeys) < Len(bodyCodingKeys.cases)
  /\ diagsOf(Decodable, "decodable_property_will_not_be_decoded") # <<>>

\* the positions of the container acquisitions in a body
acquisitions(body) == {n \in DOMAIN body : body[n].op = "container"}

\* the body acquires the container once, as its first statement
startsWithContainer(body) == acquisitions(body) = {1}

\* C29: the synthesized encode body (struct, class and enum form) always
\* starts with the acquisition of the keyed encoding container, also when
\* the key enumeration has no cases; the synthesized init(from:) body
\* acquires the keyed decoding container exactly when the key enumeration
\* has at least one case, and then as its first statement
C29_ContainerAcquisition ==
  /\ encodeBody # <<>> => startsWithContainer(encodeBody[1])
  /\ initBody # <<>> =>
       IF bodyCodingKeys.cases # <<>>
       THEN startsWithContainer(initBody[1])
       ELSE acquisitions(initBody[1]) = {}

\* both bodies were synthesized over a key enumeration without cases
C29_Witness ==
  /\ encodeBody # <<>> /\ initBody # <<>>
  /\ bodyCodingKeys.cases = <<>>
  /\ startsWithContainer(encodeBody[1])

\* the members named CodingKeys
codingKeysEntities == lookupDirect(members, Id_CodingKeys)

\* the derivation of proto ended in failure and added neither a
\* declaration nor a synthesized key enumeration
failsWithoutSynthesis(proto) ==
  /\ derived[proto] = "failed"
  /\ ~hasDecl(declNameOf(proto))
  /\ \A i \in DOMAIN members : ~members[i].implicit

\* the single CodingKeys entity is a type that neither conforms to CodingKey
\* nor is an enumeration
neitherConformsNorEnum ==
  /\ Len(codingKeysEntities) = 1
  /\ codingKeysEntities[1].declKind \notin {"enum", "var"}
  /\ ~codingKeysEntities[1].conformsCodingKey

\* the single CodingKeys entity cannot serve as key type: it is no type, does
\* not conform to CodingKey (directly or behind a typealias), or conforms
\* and is no enumeration
singleEntityInvalid ==
  /\ Len(codingKeysEntities) = 1
  /\ \/ codingKeysEntities[1].declKind = "var"
     \/ ~codingKeysEntities[1].conformsCodingKey
     \/ codingKeysEntities[1].declKind # "enum"

\* C30: canSynthesize fails, without synthesizing anything, when the type
\* has more than one member named CodingKeys; it fails when the single
\* CodingKeys entity is not a type, or is a type (possibly behind a
\* typealias) that does not conform to CodingKey, or conforms but is not an
\* enumeration; the conformance is checked before the kind, so a CodingKeys
\* type that is neither is diagnosed as not conforming (once, when the key
\* type is validated) and never as not being an enumeration
C30_KeyTypeValidity ==
  \A p \in Protocols :
     derived[p] # "none" =>
       /\ Len(codingKeysEntities) > 1 => failsWithoutSynthesis(p)
       /\ singleEntityInvalid => failsWithoutSynthesis(p)
       /\ neitherConformsNorEnum =>
            /\ diagsOf(p, "codable_codingkeys_type_is_not_an_enum_here") = <<>>
            /\ Len(diagsOf(p, "codable_codingkeys_type_does_not_conform_here"))
                 = IF reachesKeyValidation(p) THEN 1 ELSE 0

\* a derivation ran on a type whose CodingKeys is a struct that does not
\* conform to CodingKey, and reported that it does not conform
C30_Witness ==
  /\ neitherConformsNorEnum
  /\ \E p \in Protocols :
        /\ derived[p] = "failed"
        /\ diagsOf(p, "codable_codingkeys_type_does_not_conform_here") # <<>>

====
